---- MODULE Spec2Model ----
(***************************************************************************)
(* Model of the F1 data platform: the file cache (DataCache), the API      *)
(* clients with their retry policy (ErgastAPI, OpenMeteoAPI) from          *)
(* Scrapping/Scrapping_Agregation_Nettoyage.py, and the relational loader  *)
(* and schema (import_f1_data, create_database_structure) from             *)
(* Base_de_donnees/f1_data_analysis.py.                                    *)
(***************************************************************************)
EXTENDS Integers, Sequences, FiniteSets, TLC

VARIABLES
    cfg,        \* configuration read at construction (max_retries, the retry
                \* waits) and the layout of the host (is the temp dir on the
                \* cache's filesystem)
    files,      \* the cache directory: key -> [exists, text] for <key>.json
    tmp,        \* the temporary file DataCache.set is writing, if any
    tmpLeft,    \* TRUE once a temporary file was left behind on disk
    pc,         \* position of the running DataCache.set ("idle" when none)
    cur,        \* arguments of the running DataCache.set
    last,       \* the last completed cache operation and what it returned
    call,       \* the last completed client operation and what it returned
    arg,        \* the weather request, or the page fetch, waiting to be made
    http,       \* the HTTP request a client operation has in flight
    api,        \* the REST API: its clock, the tokens it issued, its last response
    conn,       \* the MySQL connection: committed rows, transaction view
    schema,     \* the tables that exist in the database
    passes,     \* import passes run since the schema was last created
    done        \* the last completed database operation

vars == <<cfg, files, tmp, tmpLeft, pc, cur, last, call, arg, http, api,
          conn, schema, passes, done>>

setVars    == <<tmp, tmpLeft, pc, cur, last>>
clientVars == <<call, arg, http, api>>
dbVars     == <<conn, schema, passes, done>>

(***************************************************************************)
(* Python values.  Every value has the same record shape so that any two   *)
(* can be compared: t is the Python type, n an int's value, chars a str's  *)
(* characters, items the elements of a list or tuple, or the entries of a  *)
(* dict (an entry's items are <<key, value>>).                             *)
(***************************************************************************)
PyVal(t, n, chars, items) == [t |-> t, n |-> n, chars |-> chars, items |-> items]
PyNone       == PyVal("none", 0, <<>>, <<>>)
PyInt(n)     == PyVal("int", n, <<>>, <<>>)
PyStr(cs)    == PyVal("str", 0, cs, <<>>)
PyList(xs)   == PyVal("list", 0, <<>>, xs)
PyTuple(xs)  == PyVal("tuple", 0, <<>>, xs)
PyEntry(k, v) == PyVal("entry", 0, <<>>, <<k, v>>)
PyDict(es)   == PyVal("dict", 0, <<>>, es)
PyBool(b)    == PyVal("bool", IF b THEN 1 ELSE 0, <<>>, <<>>)

RECURSIVE PyEq(_, _)
\* Python's == on these values: lists and tuples compare element by element
\* and never equal each other; dicts compare as mappings, whatever the order.
PyEq(a, b) ==
    /\ a.t = b.t
    /\ CASE a.t \in {"none"} -> TRUE
         [] a.t = "int" -> a.n = b.n
         [] a.t = "str" -> a.chars = b.chars
         [] a.t \in {"list", "tuple", "entry"} ->
                /\ Len(a.items) = Len(b.items)
                /\ \A i \in 1..Len(a.items) : PyEq(a.items[i], b.items[i])
         [] a.t = "dict" ->
                /\ Len(a.items) = Len(b.items)
                /\ \A i \in 1..Len(a.items) :
                      \E j \in 1..Len(b.items) : PyEq(a.items[i], b.items[j])
         [] OTHER -> FALSE

(***************************************************************************)
(* json.dump(data, tf, indent=2, ensure_ascii=False): the text written,    *)
(* as a sequence of characters (a str's content is kept as the symbols it  *)
(* was built from).                                                        *)
(***************************************************************************)
Q  == "\""
NL == "\n"
SP == " "
DigitChars == <<"0", "1", "2", "3", "4", "5", "6", "7", "8", "9">>
IsDigit(c) == \E d \in 1..10 : DigitChars[d] = c
DigitVal(c) == (CHOOSE d \in 1..10 : DigitChars[d] = c) - 1

RECURSIVE Digits(_)
Digits(n) == IF n < 10 THEN <<DigitChars[n + 1]>>
             ELSE Digits(n \div 10) \o <<DigitChars[(n % 10) + 1]>>

RECURSIVE Spaces(_)
Spaces(k) == IF k = 0 THEN <<>> ELSE <<SP>> \o Spaces(k - 1)

Indent == 2
NewlineIndent(level) == <<NL>> \o Spaces(Indent * level)

\* json encodes a dict key: a str as itself, an int as the str of its digits
DumpKey(k) == IF k.t = "int" THEN <<Q>> \o Digits(k.n) \o <<Q>>
              ELSE <<Q>> \o k.chars \o <<Q>>

RECURSIVE Dumps(_, _)
RECURSIVE DumpItems(_, _, _)
DumpItems(xs, i, level) ==
    LET x == xs[i]
        one == IF x.t = "entry"
               THEN DumpKey(x.items[1]) \o <<":", SP>> \o Dumps(x.items[2], level)
               ELSE Dumps(x, level)
    IN  IF i = Len(xs) THEN one
        ELSE one \o <<",">> \o NewlineIndent(level) \o DumpItems(xs, i + 1, level)

Dumps(v, level) ==
    CASE v.t = "none" -> <<"n", "u", "l", "l">>
      [] v.t = "int"  -> Digits(v.n)
      [] v.t = "str"  -> <<Q>> \o v.chars \o <<Q>>
      [] v.t \in {"list", "tuple"} ->
            IF v.items = <<>> THEN <<"[", "]">>
            ELSE <<"[">> \o NewlineIndent(level + 1) \o DumpItems(v.items, 1, level + 1)
                    \o NewlineIndent(level) \o <<"]">>
      [] v.t = "dict" ->
            IF v.items = <<>> THEN <<"{", "}">>
            ELSE <<"{">> \o NewlineIndent(level + 1) \o DumpItems(v.items, 1, level + 1)
                    \o NewlineIndent(level) \o <<"}">>

\* the text loses its last character (the file is moved before it is flushed)
json_dump_unflushed(data) == SubSeq(Dumps(data, 0), 1, Len(Dumps(data, 0)) - 1)
json_dump(data) == Dumps(data, 0)

(***************************************************************************)
(* json.load(f): a recursive-descent parse of the text.  A parse result is *)
(* [ok, v, next]: next is the position after the value.                    *)
(***************************************************************************)
ParseFail == [ok |-> FALSE, v |-> PyNone, next |-> 0]
ParseOk(v, next) == [ok |-> TRUE, v |-> v, next |-> next]
At(txt, i) == IF i >= 1 /\ i <= Len(txt) THEN txt[i] ELSE "EOF"

RECURSIVE SkipWs(_, _)
SkipWs(txt, i) == IF At(txt, i) \in {SP, NL} THEN SkipWs(txt, i + 1) ELSE i

RECURSIVE ScanDigits(_, _)
\* position after the run of digits that starts at i
ScanDigits(txt, i) == IF IsDigit(At(txt, i)) THEN ScanDigits(txt, i + 1) ELSE i

RECURSIVE NumVal(_, _, _)
NumVal(txt, i, j) == IF j < i THEN 0
                     ELSE NumVal(txt, i, j - 1) * 10 + DigitVal(txt[j])

RECURSIVE ScanString(_, _)
\* position of the closing quote of the string whose content starts at i, or 0
ScanString(txt, i) == IF i > Len(txt) THEN 0
                      ELSE IF txt[i] = Q THEN i
                      ELSE ScanString(txt, i + 1)

\* a dict keeps one entry per key: a repeated key replaces the earlier entry
PutEntry(es, k, v) ==
    IF \E i \in 1..Len(es) : PyEq(es[i].items[1], k)
    THEN [i \in 1..Len(es) |-> IF PyEq(es[i].items[1], k) THEN PyEntry(k, v) ELSE es[i]]
    ELSE Append(es, PyEntry(k, v))

RECURSIVE ParseValue(_, _)
RECURSIVE ParseItems(_, _, _)
RECURSIVE ParseMembers(_, _, _)

ParseString(txt, i) ==
    LET j == ScanString(txt, i + 1)
    IN  IF j = 0 THEN ParseFail
        ELSE ParseOk(PyStr(SubSeq(txt, i + 1, j - 1)), j + 1)

ParseItems(txt, i, acc) ==
    LET r == ParseValue(txt, i)
        k == SkipWs(txt, r.next)
    IN  IF ~r.ok THEN ParseFail
        ELSE IF At(txt, k) = "," THEN ParseItems(txt, SkipWs(txt, k + 1), Append(acc, r.v))
        ELSE IF At(txt, k) = "]" THEN ParseOk(PyList(Append(acc, r.v)), k + 1)
        ELSE ParseFail

ParseMembers(txt, i, acc) ==
    IF At(txt, i) # Q THEN ParseFail
    ELSE LET key == ParseString(txt, i)
             c   == SkipWs(txt, key.next)
             r   == ParseValue(txt, SkipWs(txt, c + 1))
             k   == SkipWs(txt, r.next)
         IN  IF ~key.ok \/ At(txt, c) # ":" THEN ParseFail
             ELSE IF ~r.ok THEN ParseFail
             ELSE IF At(txt, k) = ","
                  THEN ParseMembers(txt, SkipWs(txt, k + 1), PutEntry(acc, key.v, r.v))
             ELSE IF At(txt, k) = "}"
                  THEN ParseOk(PyDict(PutEntry(acc, key.v, r.v)), k + 1)
             ELSE ParseFail

ParseValue(txt, i) ==
    LET c == At(txt, i)
    IN  CASE c = "n" ->
                IF <<At(txt, i), At(txt, i + 1), At(txt, i + 2), At(txt, i + 3)>>
                        = <<"n", "u", "l", "l">>
                THEN ParseOk(PyNone, i + 4) ELSE ParseFail
          [] IsDigit(c) ->
                \* JSON numbers have no leading zero: "0" ends the number
                LET j == IF c = "0" THEN i + 1 ELSE ScanDigits(txt, i)
                IN  ParseOk(PyInt(NumVal(txt, i, j - 1)), j)
          [] c = Q -> ParseString(txt, i)
          [] c = "[" ->
                LET k == SkipWs(txt, i + 1)
                IN  IF At(txt, k) = "]" THEN ParseOk(PyList(<<>>), k + 1)
                    ELSE ParseItems(txt, k, <<>>)
          [] c = "{" ->
                LET k == SkipWs(txt, i + 1)
                IN  IF At(txt, k) = "}" THEN ParseOk(PyDict(<<>>), k + 1)
                    ELSE ParseMembers(txt, k, <<>>)
          [] OTHER -> ParseFail

\* json.load: one value, then nothing but whitespace up to the end of the file
json_load(txt) ==
    LET r == ParseValue(txt, SkipWs(txt, 1))
    IN  IF r.ok /\ SkipWs(txt, r.next) = Len(txt) + 1 THEN r ELSE ParseFail

(***************************************************************************)
(* DataCache: one file <key>.json per key in the cache directory.          *)
(***************************************************************************)
Years  == {2023}
Rounds == {1}
SeasonKey(year)       == "season_" \o ToString(year)
RaceKey(year, round)  == "race_" \o ToString(year) \o "_" \o ToString(round)
CacheKeys == {SeasonKey(y) : y \in Years} \cup {RaceKey(y, r) : y \in Years, r \in Rounds}

NoFile        == [exists |-> FALSE, text |-> <<>>]
FileOf(text)  == [exists |-> TRUE, text |-> text]

\* the values handed to DataCache.set: every one is accepted by json.dump
CacheData ==
    { PyInt(12),
      PyStr(<<"a">>),
      PyList(<<PyInt(1)>>),
      PyTuple(<<PyInt(1)>>),
      PyDict(<<PyEntry(PyStr(<<"a">>), PyInt(1))>>),
      PyDict(<<PyEntry(PyInt(1), PyInt(2))>>) }

RECURSIVE IsJson(_)
\* the values JSON itself has: null, numbers, strings, arrays, and objects
\* whose keys are strings
IsJson(v) ==
    CASE v.t \in {"none", "int", "str"} -> TRUE
      [] v.t = "list" -> \A i \in 1..Len(v.items) : IsJson(v.items[i])
      [] v.t = "dict" -> \A i \in 1..Len(v.items) :
                            /\ v.items[i].items[1].t = "str"
                            /\ IsJson(v.items[i].items[2])
      [] OTHER -> FALSE

\* what a call gives its caller: the exception it raises ("none": it returns)
\* and the value it returns
Returns(value) == [raised |-> "none", value |-> value]
Raises(exc)    == [raised |-> exc, value |-> PyNone]

\* get, lines 659-662: the body of the try; json.load raises JSONDecodeError
\* on a text that is not a JSON document
GetLoaded(r) == IF r.ok THEN Returns(r.v) ELSE Raises("JSONDecodeError")
GetTry(file) == GetLoaded(json_load(file.text))

\* get, lines 663-665: except Exception: log a warning, return None
GetExcept_reraise(outcome) == outcome
GetExcept(outcome) ==
    IF outcome.raised # "none" THEN Returns(PyNone) ELSE outcome

\* DataCache.get as its caller sees it
GetCall(fs, key) ==
    IF fs[key].exists THEN GetExcept(GetTry(fs[key])) ELSE Returns(PyNone)

\* DataCache.get: the parsed content of <key>.json, None when the file is
\* missing or does not parse
get(fs, key) == GetCall(fs, key).value

\* a glob pattern handed to clear: None, or a str
NoPattern     == [none |-> TRUE, chars |-> <<>>]
Pattern(cs)   == [none |-> FALSE, chars |-> cs]

NoCur  == [key |-> "", data |-> PyNone, prior |-> PyNone]
NoLast == [op |-> "none", key |-> "", data |-> PyNone, prior |-> PyNone, result |-> PyNone,
           raised |-> "none", pattern |-> NoPattern, count |-> 0,
           before |-> [k \in CacheKeys |-> NoFile], tmp |-> NoFile]

\* set, line 673: NamedTemporaryFile(mode='w', delete=False) creates an empty
\* file in the system's temporary directory
SetOpen(key, data) ==
    /\ pc = "idle"
    /\ pc' = "opened"
    /\ cur' = [key |-> key, data |-> data, prior |-> get(files, key)]
    /\ tmp' = FileOf(<<>>)
    /\ last' = [NoLast EXCEPT !.op = "setting", !.key = key, !.data = data]
    /\ UNCHANGED <<files, tmpLeft>>

\* set, lines 674-675: json.dump into the temporary file, which is then closed
SetDump ==
    /\ pc = "opened"
    /\ pc' = "dumped"
    /\ tmp' = FileOf(json_dump(cur.data))
    /\ UNCHANGED <<files, tmpLeft, cur, last>>

\* set, line 678: shutil.move(temp_name, filepath).  On one filesystem it is
\* os.rename; across filesystems it copies the file to the destination
\* (opened for writing, so truncated first) and then unlinks the source.
SetMoveRename ==
    /\ pc = "dumped"
    /\ cfg.sameFs
    /\ files' = [files EXCEPT ![cur.key] = tmp]
    /\ tmp' = NoFile
    /\ pc' = "idle"
    /\ cur' = NoCur
    /\ last' = [last EXCEPT !.op = "set", !.prior = cur.prior]
    /\ UNCHANGED tmpLeft

SetMoveCopyOpen ==
    /\ pc = "dumped"
    /\ ~cfg.sameFs
    /\ files' = [files EXCEPT ![cur.key] = FileOf(<<>>)]
    /\ pc' = "copying"
    /\ UNCHANGED <<tmp, tmpLeft, cur, last>>

SetMoveCopyWrite ==
    /\ pc = "copying"
    /\ Len(files[cur.key].text) < Len(tmp.text)
    /\ files' = [files EXCEPT ![cur.key] =
                    FileOf(SubSeq(tmp.text, 1, Len(files[cur.key].text) + 1))]
    /\ UNCHANGED <<tmp, tmpLeft, pc, cur, last>>

SetMoveCopyUnlink ==
    /\ pc = "copying"
    /\ Len(files[cur.key].text) = Len(tmp.text)
    /\ tmp' = NoFile
    /\ pc' = "idle"
    /\ cur' = NoCur
    /\ last' = [last EXCEPT !.op = "set", !.prior = cur.prior]
    /\ UNCHANGED <<files, tmpLeft>>

\* set, lines 680-687: a statement of the try block raises (json.dump on a
\* value it cannot serialise or on a full disk, os.rename, or the copy into
\* <key>.json) and the except clause runs.  It unlinks the temporary file when
\* temp_name is a local variable, and temp_name is assigned after json.dump
\* (line 675), so the file of a failed dump stays.  Nothing is raised.
SetExcept ==
    /\ pc \in {"opened", "dumped", "copying"}
    /\ pc' = "idle"
    /\ tmpLeft' = (tmpLeft \/ pc = "opened")
    /\ tmp' = NoFile
    /\ last' = [NoLast EXCEPT !.op = "set_failed", !.key = cur.key,
                               !.prior = cur.prior,
                               !.tmp = IF pc = "opened" THEN tmp ELSE NoFile]
    /\ cur' = NoCur
    /\ UNCHANGED files

\* the process dies while set is running; what is on disk stays as it is
Crash ==
    /\ pc # "idle"
    /\ pc' = "idle"
    /\ tmpLeft' = (tmpLeft \/ tmp.exists)
    /\ tmp' = NoFile
    /\ last' = [NoLast EXCEPT !.op = "crash", !.key = cur.key, !.data = cur.data,
                               !.prior = cur.prior]
    /\ cur' = NoCur
    /\ UNCHANGED files

Get(key) ==
    /\ pc = "idle"
    /\ \E out \in {GetCall(files, key)} :
          last' = [NoLast EXCEPT !.op = "get", !.key = key,
                                 !.result = out.value, !.raised = out.raised]
    /\ UNCHANGED <<files, tmp, tmpLeft, pc, cur>>

\* DataCache.set run from its first line to its last with no failure
set(fs, key, data) == [fs EXCEPT ![key] = FileOf(json_dump(data))]

\* the characters of a key, and the name of its file in the cache directory
SeasonChars(year) == <<"s", "e", "a", "s", "o", "n", "_">> \o Digits(year)
RaceChars(year, round) ==
    <<"r", "a", "c", "e", "_">> \o Digits(year) \o <<"_">> \o Digits(round)
KeyChars(key) ==
    IF \E year \in Years : key = SeasonKey(year)
    THEN SeasonChars(CHOOSE year \in Years : key = SeasonKey(year))
    ELSE LET yr == CHOOSE yr \in Years \X Rounds : key = RaceKey(yr[1], yr[2])
         IN  RaceChars(yr[1], yr[2])
JsonSuffix == <<".", "j", "s", "o", "n">>
FileName(key) == KeyChars(key) \o JsonSuffix

RECURSIVE fnmatch(_, _, _, _)
\* Path.glob on the names of a directory: * is any run of characters, ? is
\* any one character, every other character is itself
fnmatch(pat, i, name, j) ==
    IF i > Len(pat) THEN j > Len(name)
    ELSE IF pat[i] = "*"
    THEN \/ fnmatch(pat, i + 1, name, j)
         \/ j <= Len(name) /\ fnmatch(pat, i, name, j + 1)
    ELSE /\ j <= Len(name)
         /\ pat[i] = "?" \/ pat[i] = name[j]
         /\ fnmatch(pat, i + 1, name, j + 1)

\* invalidate, lines 689-700; unlinkFails: filepath.unlink() raises
invalidate_keeps_file(fs, key, unlinkFails) ==
    IF fs[key].exists /\ ~unlinkFails
    THEN [files |-> fs, out |-> Returns(PyBool(TRUE))]
    ELSE [files |-> fs, out |-> Returns(PyBool(FALSE))]
invalidate(fs, key, unlinkFails) ==
    IF fs[key].exists /\ ~unlinkFails
    THEN [files |-> [fs EXCEPT ![key] = NoFile], out |-> Returns(PyBool(TRUE))]
    ELSE [files |-> fs, out |-> Returns(PyBool(FALSE))]

Invalidate(key, unlinkFails) ==
    /\ pc = "idle"
    /\ \E r \in {invalidate(files, key, unlinkFails)} :
          /\ files' = r.files
          /\ last' = [NoLast EXCEPT !.op = "invalidate", !.key = key, !.before = files,
                                    !.result = r.out.value, !.raised = r.out.raised]
    /\ UNCHANGED <<tmp, tmpLeft, pc, cur>>

\* clear, lines 706-709: `if pattern:` is false for None and for the empty str
ClearGlob_every_file(pattern) == <<"*">> \o JsonSuffix
ClearGlob(pattern) ==
    IF pattern.none \/ pattern.chars = <<>> THEN <<"*">> \o JsonSuffix
    ELSE pattern.chars \o JsonSuffix

\* clear, lines 707-709: the files of the cache directory the glob lists
ClearFiles(fs, pattern) ==
    {k \in DOMAIN fs : fs[k].exists /\ fnmatch(ClearGlob(pattern), 1, FileName(k), 1)}

\* clear, lines 702-718: the files are unlinked and counted, the count is
\* logged, and the function ends without a return statement
ClearUnlink(fs, listed) ==
    [files |-> [k \in DOMAIN fs |-> IF k \in listed THEN NoFile ELSE fs[k]],
     count |-> Cardinality(listed),
     out   |-> Returns(PyNone)]
clear(fs, pattern) == ClearUnlink(fs, ClearFiles(fs, pattern))

\* the patterns handed to clear
Patterns ==
    { NoPattern,
      Pattern(<<>>),
      Pattern(<<"*">>),
      Pattern(<<"s", "e", "a", "s", "o", "n", "_", "*">>),
      Pattern(<<"r", "a", "c", "e", "_", "2", "0", "2", "3", "_", "?">>),
      Pattern(<<"s", "e", "a", "s", "o", "n", "_", "2", "0", "2", "3">>),
      Pattern(<<"r", "a", "c", "e">>) }

Clear(pattern) ==
    /\ pc = "idle"
    /\ \E r \in {clear(files, pattern)} :
          /\ files' = r.files
          /\ last' = [NoLast EXCEPT !.op = "clear", !.pattern = pattern, !.before = files,
                                    !.count = r.count, !.result = r.out.value,
                                    !.raised = r.out.raised]
    /\ UNCHANGED <<tmp, tmpLeft, pc, cur>>

(***************************************************************************)
(* The retry policy of the API clients: the tenacity decorator             *)
(*   @retry(stop=stop_after_attempt(3),                                    *)
(*          wait=wait_exponential(multiplier=2, min=4, max=30))            *)
(* on _api_call_with_retry, which re-raises every transport failure.       *)
(***************************************************************************)
StopAfterAttempt == 3
WaitMultiplier   == 2
WaitMin          == 4
WaitMax          == 30
DefaultMaxRetries == 3

MaxFails == 4          \* a transport fails at most this many calls in a row
MaxRetriesCfg == 4     \* largest max_retries a configuration file sets
MaxWaitCfg == 1        \* a configuration file raises a retry wait setting by at most this

\* the configuration ErgastAPI.__init__ reads, lines 579-582: the defaults, or
\* a file that sets max_retries, or a file that raises the multiplier or the
\* smallest wait
MinDelay == 3          \* web_scraping.min_delay
MaxDelay == 7          \* web_scraping.max_delay
DefaultConfig ==
    [max_retries |-> DefaultMaxRetries, retry_wait_multiplier |-> WaitMultiplier,
     retry_wait_min |-> WaitMin, retry_wait_max |-> WaitMax, sameFs |-> TRUE,
     use_playwright |-> TRUE, min_delay |-> MinDelay, max_delay |-> MaxDelay]
Configs ==
    {[DefaultConfig EXCEPT !.max_retries = n] : n \in 1..MaxRetriesCfg}
    \cup {[DefaultConfig EXCEPT !.retry_wait_multiplier = @ + d] : d \in 0..MaxWaitCfg}
    \cup {[DefaultConfig EXCEPT !.retry_wait_min = @ + d] : d \in 0..MaxWaitCfg}

RECURSIVE Pow(_, _)
Pow(b, e) == IF e = 0 THEN 1 ELSE b * Pow(b, e - 1)
Max2(a, b) == IF a >= b THEN a ELSE b
Min2(a, b) == IF a <= b THEN a ELSE b

\* wait_exponential: multiplier * 2^(attempt_number - 1), clamped to [min, max]
wait_exponential(attempt) ==
    Max2(Max2(0, WaitMin), Min2(WaitMultiplier * Pow(2, attempt - 1), WaitMax))

\* the same policy for any multiplier, min and max
WaitExponential(multiplier, lo, hi, attempt) ==
    Max2(Max2(0, lo), Min2(multiplier * Pow(2, attempt - 1), hi))

\* stop_after_attempt(3)
stop_after_attempt(attempt) == attempt >= StopAfterAttempt

\* a transport: it fails its first `fails` calls (every call when `always`)
\* and answers `body` afterwards
AlwaysFails == [always |-> TRUE, fails |-> 0, body |-> PyNone]
Transports(bodies) ==
    {AlwaysFails} \cup [always : {FALSE}, fails : 0..MaxFails, body : bodies]
TransportFails(t, attempt) == t.always \/ attempt <= t.fails

RECURSIVE RetryLoop(_, _, _)
\* the decorated call: [ok, attempts, waits], attempts counts the HTTP requests
RetryLoop(t, attempt, waits) ==
    IF ~TransportFails(t, attempt)
    THEN [ok |-> TRUE, attempts |-> attempt, waits |-> waits]
    ELSE IF stop_after_attempt(attempt)
    THEN [ok |-> FALSE, attempts |-> attempt, waits |-> waits]
    ELSE RetryLoop(t, attempt + 1, Append(waits, wait_exponential(attempt)))

_api_call_with_retry(t) == RetryLoop(t, 1, <<>>)

(***************************************************************************)
(* ErgastAPI                                                               *)
(***************************************************************************)
Str(sym) == PyStr(<<sym>>)
Obj1(k, v) == PyDict(<<PyEntry(Str(k), v)>>)
RaceDoc(n) == Obj1("round", PyInt(n))
Envelope(table) == Obj1("MRData", Obj1("RaceTable", table))

\* what the racing-results API may answer
ErgastBodies ==
    { Envelope(Obj1("Races", PyList(<<RaceDoc(1), RaceDoc(2)>>))),
      Envelope(Obj1("Races", PyList(<<>>))),
      Envelope(PyDict(<<>>)),
      Obj1("MRData", PyDict(<<>>)),
      PyDict(<<>>),
      PyList(<<>>) }

\* Python's `key in container` for a str key
PyIn(k, c) ==
    CASE c.t = "dict" -> \E i \in 1..Len(c.items) : PyEq(c.items[i].items[1], Str(k))
      [] c.t \in {"list", "tuple"} -> \E i \in 1..Len(c.items) : PyEq(c.items[i], Str(k))
      [] c.t = "str" -> \E i \in 1..Len(c.chars) : c.chars[i] = k
      [] OTHER -> FALSE
\* `key in container` raises TypeError on an int or None
PyInRaises(c) == c.t \in {"int", "none"}

\* container[key] on a dict that has the key
PyItem(c, k) ==
    LET i == CHOOSE i \in 1..Len(c.items) : PyEq(c.items[i].items[1], Str(k))
    IN  c.items[i].items[2]
\* container[key] raises on anything but a dict that has the key
PyItemRaises(c, k) == ~(c.t = "dict" /\ PyIn(k, c))

\* get_season_data, line 597
SeasonInvalid(result) ==
    \/ ~PyIn("MRData", result)
    \/ PyItemRaises(result, "MRData")
    \/ PyInRaises(PyItem(result, "MRData"))
    \/ ~PyIn("RaceTable", PyItem(result, "MRData"))

\* get_race_results, lines 617-619
RaceInvalid_empty_allowed(result) ==
    \/ SeasonInvalid(result)
    \/ ~PyIn("Races", PyItem(PyItem(result, "MRData"), "RaceTable"))
RaceInvalid(result) ==
    \/ SeasonInvalid(result)
    \/ PyItemRaises(PyItem(result, "MRData"), "RaceTable")
    \/ PyInRaises(PyItem(PyItem(result, "MRData"), "RaceTable"))
    \/ ~PyIn("Races", PyItem(PyItem(result, "MRData"), "RaceTable"))
    \/ PyItemRaises(PyItem(PyItem(result, "MRData"), "RaceTable"), "Races")
    \/ PyItem(PyItem(PyItem(result, "MRData"), "RaceTable"), "Races").t
            \notin {"list", "tuple", "dict", "str"}
    \/ LET races == PyItem(PyItem(PyItem(result, "MRData"), "RaceTable"), "Races")
       IN  Len(races.items) + Len(races.chars) = 0

NoResp == [hasHourly |-> FALSE, lens |-> [name \in {} |-> 0]]
NoWeather == [temperature |-> 0, humidity |-> 0, wind_speed |-> 0,
              wind_direction |-> 0, precipitation |-> 0, pressure |-> 0]
NoCall == [op |-> "none", year |-> 0, round |-> 0, transport |-> [always |-> FALSE, fails |-> 0, body |-> PyNone],
           script |-> <<>>, delays |-> <<>>,
           attempts |-> 0, waits |-> <<>>, raised |-> "none", result |-> PyNone,
           hit |-> FALSE, stored |-> NoFile,
           resp |-> NoResp, weather |-> NoWeather]

\* the try block of an Ergast operation, lines 590-600 and 610-622: tenacity
\* raises RetryError when the last attempt failed, the validation raises APIError
ErgastTry(r, invalid) ==
    IF ~r.ok THEN "RetryError" ELSE IF invalid THEN "APIError" ELSE "none"

\* except Exception, lines 602-606 and 624-628: every exception leaves as APIError
ErgastExcept_reraise(exc) == exc
ErgastExcept(exc) == IF exc # "none" THEN "APIError" ELSE "none"

\* the outcome of an Ergast operation: the retried call r, then the validation
ErgastOutcome(op, year, round, key, t, r, invalid) ==
    [NoCall EXCEPT
        !.op = op, !.year = year, !.round = round, !.transport = t,
        !.attempts = r.attempts, !.waits = r.waits,
        !.raised = ErgastExcept(ErgastTry(r, invalid)),
        !.result = IF ErgastTry(r, invalid) # "none" THEN PyNone ELSE t.body,
        !.hit = files[key].exists, !.stored = files[key]]
ErgastCall_validation_retried(op, year, round, key, t, invalid) ==
    ErgastOutcome(op, year, round, key, t,
        IF invalid THEN _api_call_with_retry(AlwaysFails) ELSE _api_call_with_retry(t),
        invalid)
ErgastCall(op, year, round, key, t, invalid) ==
    ErgastOutcome(op, year, round, key, t, _api_call_with_retry(t), invalid)

get_season_data(year, t) ==
    /\ call' = ErgastCall("get_season_data", year, 0, SeasonKey(year), t,
                          SeasonInvalid(t.body))
    /\ UNCHANGED files

get_race_results(year, round, t) ==
    /\ call' = ErgastCall("get_race_results", year, round, RaceKey(year, round), t,
                          RaceInvalid(t.body))
    /\ UNCHANGED files

\* the documents found in the cache when the client runs
CachedBodies ==
    { Envelope(Obj1("Races", PyList(<<RaceDoc(1), RaceDoc(2)>>))),
      Envelope(Obj1("Races", PyList(<<RaceDoc(1)>>))) }

\* a caller stores a document in the cache
CachePut(key, data) ==
    /\ files' = set(files, key, data)
    /\ UNCHANGED call

(***************************************************************************)
(* OpenMeteoAPI.get_weather_data                                           *)
(***************************************************************************)
race_hour == 14
MaxExtraHours == 1     \* the longest series has race_hour + 1 + MaxExtraHours values

\* the hourly series requested, in the order the result record reads them
HourlyOf == [temperature    |-> "temperature_2m",
             humidity       |-> "relative_humidity_2m",
             wind_speed     |-> "wind_speed_10m",
             wind_direction |-> "wind_direction_10m",
             precipitation  |-> "precipitation",
             pressure       |-> "surface_pressure"]
HourlyNames == {HourlyOf[f] : f \in DOMAIN HourlyOf}

\* a weather response: whether it has 'hourly', and the length of each series
\* in it (-1: the series is missing).  The value at position i of a series is
\* fixed by the series and i, so that no two positions of any two series agree.
SeriesLens == race_hour .. (race_hour + 1 + MaxExtraHours)
SeriesBase == [temperature_2m     |-> 100, relative_humidity_2m |-> 200,
               wind_speed_10m     |-> 300, wind_direction_10m   |-> 400,
               precipitation      |-> 500, surface_pressure     |-> 600]
SeriesOf(name, n) == [i \in 1..n |-> SeriesBase[name] + i]
WeatherResponses ==
    {NoResp} \cup [hasHourly : {TRUE}, lens : [HourlyNames -> SeriesLens \cup {-1}]]

\* hourly_data[name][hour_index]: KeyError when the series is missing,
\* IndexError when hour_index is not below its length
HourlyRaises(resp, name, hour_index) ==
    \/ resp.lens[name] = -1
    \/ hour_index >= resp.lens[name]
HourlyAt(resp, name, hour_index) == SeriesOf(name, resp.lens[name])[hour_index + 1]

\* lines 426-437
hour_index_next == race_hour + 1
hour_index == race_hour
ExtractRaises(resp) ==
    \/ ~resp.hasHourly
    \/ \E f \in DOMAIN HourlyOf : HourlyRaises(resp, HourlyOf[f], hour_index)
Extract(resp) == [f \in DOMAIN HourlyOf |-> HourlyAt(resp, HourlyOf[f], hour_index)]

NoArg == [resp |-> NoResp, t |-> AlwaysFails]

get_weather_data ==
    LET resp == arg.resp
        t == arg.t
        r == _api_call_with_retry(t)
        failed == ~r.ok \/ ExtractRaises(resp)
    IN  /\ call.op = "none"
        /\ call' = [NoCall EXCEPT
                !.op = "get_weather_data", !.transport = t, !.resp = resp,
                !.attempts = r.attempts, !.waits = r.waits,
                !.raised = IF failed THEN "APIError" ELSE "none",
                !.weather = IF failed THEN NoWeather ELSE Extract(resp)]
        /\ UNCHANGED files

(***************************************************************************)
(* F1Scraper.fetch_page: one of two decorated methods, each                *)
(*   @retry(stop=stop_after_attempt(3),                                    *)
(*          wait=wait_exponential(multiplier=1, min=..., max=10))          *)
(* which turns every failure of an attempt into DataExtractionError.       *)
(***************************************************************************)
FetchStopAfterAttempt == 3
FetchWaitMultiplier   == 1
PlaywrightWaitMin     == 4
RequestsWaitMin       == 2
FetchWaitMax          == 10

\* _get_random_delay, lines 498-500: random.uniform(min_delay, max_delay)
RandomDelays == cfg.min_delay .. cfg.max_delay

\* what happens in one attempt: the page arrives ("ok"), the request or the
\* navigation fails ("fail_request"), or, in the browser, reading the content
\* of the page or closing the browser fails ("fail_content")
RequestsOutcomes   == {"ok", "fail_request"}
PlaywrightOutcomes == {"ok", "fail_request", "fail_content"}

\* the page texts a site serves
Pages == {Str("<html>"), PyStr(<<>>)}

\* the attempts of one call: what happens in each, and the delay each draws;
\* the call ends at the first attempt that succeeds
Attempt(outcome, delay) == [outcome |-> outcome, delay |-> delay]
RECURSIVE Scripts(_, _)
Scripts(outcomes, n) ==
    IF n = 0 THEN {<<>>}
    ELSE {<<a>> \o rest :
            a \in {Attempt(o, d) : o \in outcomes, d \in RandomDelays},
            rest \in Scripts(outcomes, n - 1)}
Ends(script) ==
    \A i \in 1..Len(script) : (script[i].outcome = "ok") <=> (i = Len(script))
FetchScripts(outcomes) ==
    {script \in UNION {Scripts(outcomes, n) : n \in 1..FetchStopAfterAttempt} :
        \/ Ends(script)
        \/ /\ Len(script) = FetchStopAfterAttempt
           /\ \A i \in 1..Len(script) : script[i].outcome # "ok"}

\* one attempt of _fetch_with_requests, lines 552-571: the sleep follows
\* raise_for_status, so an attempt that fails has not slept
RequestsAttempt(a) ==
    IF a.outcome = "ok" THEN [ok |-> TRUE, delays |-> <<a.delay>>]
    ELSE [ok |-> FALSE, delays |-> <<>>]

\* one attempt of _fetch_with_playwright, lines 518-547: the wait follows
\* page.goto and precedes page.content() and browser.close()
PlaywrightAttempt(a) ==
    CASE a.outcome = "ok"           -> [ok |-> TRUE,  delays |-> <<a.delay>>]
      [] a.outcome = "fail_content" -> [ok |-> FALSE, delays |-> <<a.delay>>]
      [] OTHER                      -> [ok |-> FALSE, delays |-> <<>>]

FetchState(ok, attempts, waits, delays) ==
    [ok |-> ok, attempts |-> attempts, waits |-> waits, delays |-> delays]

RECURSIVE _fetch_with_requests(_, _, _)
\* lines 549-571
_fetch_with_requests(script, attempt, st) ==
    IF RequestsAttempt(script[attempt]).ok
    THEN FetchState(TRUE, attempt, st.waits,
                    st.delays \o RequestsAttempt(script[attempt]).delays)
    ELSE IF attempt >= FetchStopAfterAttempt
    THEN FetchState(FALSE, attempt, st.waits,
                    st.delays \o RequestsAttempt(script[attempt]).delays)
    ELSE _fetch_with_requests(script, attempt + 1,
            FetchState(FALSE, attempt,
                Append(st.waits, WaitExponential(FetchWaitMultiplier, RequestsWaitMin,
                                                 FetchWaitMax, attempt)),
                st.delays \o RequestsAttempt(script[attempt]).delays))

RECURSIVE _fetch_with_playwright(_, _, _)
\* lines 515-547
_fetch_with_playwright(script, attempt, st) ==
    IF PlaywrightAttempt(script[attempt]).ok
    THEN FetchState(TRUE, attempt, st.waits,
                    st.delays \o PlaywrightAttempt(script[attempt]).delays)
    ELSE IF attempt >= FetchStopAfterAttempt
    THEN FetchState(FALSE, attempt, st.waits,
                    st.delays \o PlaywrightAttempt(script[attempt]).delays)
    ELSE _fetch_with_playwright(script, attempt + 1,
            FetchState(FALSE, attempt,
                Append(st.waits, WaitExponential(FetchWaitMultiplier, PlaywrightWaitMin,
                                                 FetchWaitMax, attempt)),
                st.delays \o PlaywrightAttempt(script[attempt]).delays))

\* fetch_page, lines 508-513: the result of the decorated method, and the
\* RetryError tenacity raises when the last attempt failed
FetchOutcome(script, page, r) ==
    [NoCall EXCEPT
        !.op = "fetch_page", !.script = script, !.transport.body = page,
        !.attempts = r.attempts, !.waits = r.waits, !.delays = r.delays,
        !.raised = IF r.ok THEN "none" ELSE "RetryError",
        !.result = IF r.ok THEN page ELSE PyNone]

fetch_page ==
    /\ call.op = "none"
    /\ call' = FetchOutcome(arg.script, arg.page,
                  IF cfg.use_playwright
                  THEN _fetch_with_playwright(arg.script, 1, FetchState(FALSE, 0, <<>>, <<>>))
                  ELSE _fetch_with_requests(arg.script, 1, FetchState(FALSE, 0, <<>>, <<>>)))
    /\ UNCHANGED files

(***************************************************************************)
(* The HTTP requests of the clients, one step at a time: a request is      *)
(* sent, time passes while the server is silent, and the request ends when *)
(* the server answers or when the timeout passed to requests expires.      *)
(*   ErgastAPI._api_call_with_retry     self.session.get(url)              *)
(*   OpenMeteoAPI._api_call_with_retry  requests.get(url, params=params)   *)
(*   F1Scraper._fetch_with_requests     requests.get(url, ..., timeout=30) *)
(* requests waits without limit when no timeout is passed.                 *)
(***************************************************************************)
RequestTimeout == 30   \* seconds, line 558
NoTimeout == -1
TickSeconds == 10      \* the clock advances in steps of this many seconds
MaxTicks == 4          \* a silent server is watched for at most this many steps

HttpCallers ==
    {"get_season_data", "get_race_results", "get_weather_data", "_fetch_with_requests"}

\* the timeout argument of the request each operation sends
timeout(op) == IF op = "_fetch_with_requests" THEN RequestTimeout ELSE NoTimeout

NoHttp == [op |-> "none", pc |-> "idle", attempt |-> 0, elapsed |-> 0,
           failures |-> <<>>, raised |-> "none"]

\* the operation starts and sends its first request
HttpSend(op) ==
    /\ http.pc = "idle"
    /\ http' = [NoHttp EXCEPT !.op = op, !.pc = "sent", !.attempt = 1]

\* the server is silent for another step of the clock
HttpWait ==
    /\ http.pc = "sent"
    /\ http.elapsed < MaxTicks * TickSeconds
    /\ timeout(http.op) # NoTimeout => http.elapsed < timeout(http.op)
    /\ http' = [http EXCEPT !.elapsed = @ + TickSeconds]

\* an attempt failed: the decorator sleeps and sends the request again, or,
\* after the third attempt, raises RetryError, which the API clients turn
\* into APIError (lines 441-445, 602-606, 624-628)
HttpFailed(h, why) ==
    IF h.attempt >= (IF h.op = "_fetch_with_requests" THEN FetchStopAfterAttempt
                     ELSE StopAfterAttempt)
    THEN [h EXCEPT !.pc = "raised", !.failures = Append(@, why),
                   !.raised = IF h.op = "_fetch_with_requests" THEN "RetryError"
                              ELSE "APIError"]
    ELSE [h EXCEPT !.attempt = @ + 1, !.elapsed = 0, !.failures = Append(@, why)]

\* the server answers: with the document, or with an error status
HttpRespond(ok) ==
    /\ http.pc = "sent"
    /\ http' = IF ok THEN [http EXCEPT !.pc = "returned"] ELSE HttpFailed(http, "error")

\* the timeout of the request expires: requests raises Timeout
HttpExpire ==
    /\ http.pc = "sent"
    /\ timeout(http.op) # NoTimeout
    /\ http.elapsed >= timeout(http.op)
    /\ http' = HttpFailed(http, "timeout")

(***************************************************************************)
(* The REST API, in its four variants (API/F1API.py, F1API2.py, F1API3.py, *)
(* test.py): POST /token and the endpoints that depend on verify_token.    *)
(* A token is the payload {"exp": ...} signed with a key; `jwt` is PyJWT.  *)
(***************************************************************************)
Variants == {"F1API", "F1API2", "F1API3", "test"}

\* the endpoints declared with Depends(verify_token)
Endpoints(variant) ==
    CASE variant = "F1API"  -> {"races", "driver", "performance", "weather-impact"}
      [] variant = "F1API2" -> {"races", "driver", "performance"}
      [] OTHER -> {"races", "driver", "performance", "championship",
                   "championship-detailed"}

MaxNow == 3            \* the clock of the API runs from 0 to this
MaxDuration == 2       \* the longest validity a token is asked for

Token(wellFormed, key, exp) == [wellFormed |-> wellFormed, key |-> key, exp |-> exp]
NoToken == Token(FALSE, "", 0)
NoHeader == [scheme |-> "none", token |-> NoToken]
NoResponse == [op |-> "none", at |-> 0, endpoint |-> "", header |-> NoHeader, password |-> "",
               status |-> 0, detail |-> "", queried |-> FALSE, token |-> NoToken]
NoApi == [variant |-> "none", now |-> 0, issued |-> {}, resp |-> NoResponse]

\* create_jwt: jwt.encode({"exp": now + duration}, SECRET_KEY, algorithm="HS256")
create_jwt(now, duration) == Token(TRUE, "SECRET_KEY", now + duration)

\* jwt.decode(token, SECRET_KEY, algorithms=["HS256"]): the exception it raises
jwt_decode(token, now) ==
    IF ~token.wellFormed THEN "DecodeError"
    ELSE IF token.key # "SECRET_KEY" THEN "InvalidSignatureError"
    ELSE IF token.exp <= now THEN "ExpiredSignatureError"
    ELSE "none"

\* the except clauses after jwt.decode.  F1API.py catches ExpiredSignatureError
\* and InvalidTokenError; the other variants catch ExpiredSignatureError and
\* name jwt.JWTError, which PyJWT does not define: for any other exception
\* the clause itself raises AttributeError and the request ends in 500
DecodeExcept(variant, exc) ==
    CASE exc = "none" -> [status |-> 200, detail |-> ""]
      [] exc = "ExpiredSignatureError" -> [status |-> 401, detail |-> "Token expired"]
      [] variant = "F1API" -> [status |-> 401, detail |-> "Invalid token"]
      [] OTHER -> [status |-> 500, detail |-> "Internal Server Error"]

\* verify_token.  F1API.py reads the Authorization header itself; the other
\* variants depend on HTTPBearer(), which answers by itself, with the status
\* of the installed FastAPI (403 or 401), when the header is missing or its
\* scheme is not Bearer
verify_token(variant, header, now, bearerStatus) ==
    IF header.scheme # "Bearer"
    THEN IF variant = "F1API" THEN [status |-> 401, detail |-> "Missing token"]
         ELSE [status |-> bearerStatus, detail |-> "Not authenticated"]
    ELSE DecodeExcept(variant, jwt_decode(header.token, now))

\* POST /token
generate_token(password, duration) ==
    /\ api' = [api EXCEPT
            !.issued = IF password # "API_PASSWORD" THEN @
                       ELSE @ \cup {create_jwt(api.now, duration)},
            !.resp = [NoResponse EXCEPT
                !.op = "token", !.at = api.now, !.password = password,
                !.status = IF password # "API_PASSWORD" THEN 401 ELSE 200,
                !.detail = IF password # "API_PASSWORD" THEN "Invalid password" ELSE "",
                !.token = IF password # "API_PASSWORD" THEN NoToken
                          ELSE create_jwt(api.now, duration)]]

\* the Authorization headers a client sends: none, another scheme, or Bearer
\* with a token the API issued, a token signed with another key, or text that
\* is not a token
Headers ==
    {NoHeader, [scheme |-> "Basic", token |-> NoToken]}
    \cup {[scheme |-> "Bearer", token |-> t] :
            t \in api.issued \cup {NoToken, Token(TRUE, "other key", MaxNow + 1)}}

\* GET on an endpoint that depends on verify_token: the handler, and its
\* database query, run only when the dependency raised nothing
get_protected(endpoint, header, bearerStatus) ==
    \E v \in {verify_token(api.variant, header, api.now, bearerStatus)} :
        api' = [api EXCEPT
            !.resp = [NoResponse EXCEPT
                !.op = "get", !.at = api.now, !.endpoint = endpoint, !.header = header,
                !.status = v.status, !.detail = v.detail,
                !.queried = (v.status = 200)]]

\* time passes
Tick ==
    /\ api.now < MaxNow
    /\ api' = [api EXCEPT !.now = @ + 1]

(***************************************************************************)
(* The relational store (f1_data_analysis.py).  A cell of the DataFrame,   *)
(* or a parameter of a statement, is a float NaN, None, a str or a number. *)
(***************************************************************************)
Cell(kind, str, num) == [kind |-> kind, s |-> str, n |-> num]
NaN    == Cell("nan", "", 0)
None   == Cell("none", "", 0)
S(str) == Cell("str", str, 0)
N(num) == Cell("num", "", num)
Timestamp(str) == Cell("date", str, 0)

isna(value)  == value.kind \in {"nan", "none"}
notna(value) == ~isna(value)

\* lines 28-32
safe_value(value) ==
    IF isna(value) \/ (value.kind = "str" /\ value.s = "nan") THEN None ELSE value

\* pd.to_datetime on a date string
to_datetime(value) == Timestamp(value.s)

ResultCols  == {"position", "grid", "points", "race_time", "fastest_lap_rank",
                "fastest_lap_time", "fastest_lap_speed"}
WeatherCols == {"temperature", "humidity", "wind_speed", "wind_direction",
                "precipitation", "pressure"}
Columns == {"driver", "constructor", "year", "round", "race_name", "circuit", "date"}
              \cup ResultCols \cup WeatherCols

\* the schema of lines 70-136: the tables, and their foreign keys
Tables == {"constructors", "drivers", "races", "weather_conditions",
           "race_results", "rankings"}
ForeignKeys_rankings_restrict ==
    { [child |-> "weather_conditions", col |-> "race_id", parent |-> "races", onDelete |-> "CASCADE"],
      [child |-> "race_results", col |-> "race_id", parent |-> "races", onDelete |-> "CASCADE"],
      [child |-> "race_results", col |-> "driver_id", parent |-> "drivers", onDelete |-> "CASCADE"],
      [child |-> "race_results", col |-> "constructor_id", parent |-> "constructors", onDelete |-> "CASCADE"],
      [child |-> "rankings", col |-> "race_id", parent |-> "races", onDelete |-> "RESTRICT"],
      [child |-> "rankings", col |-> "driver_id", parent |-> "drivers", onDelete |-> "CASCADE"],
      [child |-> "rankings", col |-> "constructor_id", parent |-> "constructors", onDelete |-> "CASCADE"] }
ForeignKeys ==
    { [child |-> "weather_conditions", col |-> "race_id", parent |-> "races", onDelete |-> "CASCADE"],
      [child |-> "race_results", col |-> "race_id", parent |-> "races", onDelete |-> "CASCADE"],
      [child |-> "race_results", col |-> "driver_id", parent |-> "drivers", onDelete |-> "CASCADE"],
      [child |-> "race_results", col |-> "constructor_id", parent |-> "constructors", onDelete |-> "CASCADE"],
      [child |-> "rankings", col |-> "race_id", parent |-> "races", onDelete |-> "CASCADE"],
      [child |-> "rankings", col |-> "driver_id", parent |-> "drivers", onDelete |-> "CASCADE"],
      [child |-> "rankings", col |-> "constructor_id", parent |-> "constructors", onDelete |-> "CASCADE"] }
ParentsOf(t)  == {fk.parent : fk \in {f \in ForeignKeys : f.child = t}}
ChildrenOf(t) == {fk.child : fk \in {f \in ForeignKeys : f.parent = t}}

EmptyDb == [t \in Tables |-> {}]

\* AUTO_INCREMENT PRIMARY KEY: the id given to a new row of a table
NextId(rows) == IF rows = {} THEN 1
                ELSE 1 + (CHOOSE m \in {r.id : r \in rows} : \A r \in rows : r.id <= m)

\* the statements of import_f1_data, on the rows the transaction sees
HasName_unchecked(rows, name) == FALSE
HasName(rows, name) == notna(name) /\ \E r \in rows : r.name = name.s

\* INSERT IGNORE INTO drivers (name) / constructors (name): UNIQUE(name)
InsertIgnoreName(st, table, idcol, name) ==
    IF HasName(st.conn.txn[table], name) THEN st
    ELSE [st EXCEPT
            !.conn.txn[table] = @ \cup {[id |-> NextId(st.conn.txn[table]), name |-> name.s,
                                         nationality |-> None]}]

HasRace(rows, year, round) == \E r \in rows : r.year = year /\ r.round = round

\* fetchone()[0] of SELECT driver_id / constructor_id / race_id
IdOfName(rows, name) == (CHOOSE r \in rows : r.name = name.s).id
IdOfRace(rows, year, round) == (CHOOSE r \in rows : r.year = year /\ r.round = round).id

\* INSERT IGNORE INTO races (...): UNIQUE(year, round)
InsertIgnoreRace_update(st, year, round, race_name, circuit, date) ==
    [st EXCEPT
        !.conn.txn["races"] =
            {r \in @ : ~(r.year = year /\ r.round = round)}
            \cup {[id |-> IF HasRace(@, year, round) THEN IdOfRace(@, year, round)
                          ELSE NextId(@),
                   year |-> year, round |-> round, race_name |-> race_name,
                   circuit |-> circuit, date |-> date]}]
InsertIgnoreRace(st, year, round, race_name, circuit, date) ==
    IF HasRace(st.conn.txn["races"], year, round) THEN st
    ELSE [st EXCEPT
            !.conn.txn["races"] = @ \cup {[id |-> NextId(st.conn.txn["races"]), year |-> year,
                                           round |-> round, race_name |-> race_name,
                                           circuit |-> circuit, date |-> date]}]

\* INSERT INTO race_results / weather_conditions: a new row every time
InsertResult_once(st, race_id, driver_id, constructor_id, vals) ==
    IF \E r \in st.conn.txn["race_results"] : r.race_id = race_id /\ r.driver_id = driver_id
    THEN st
    ELSE [st EXCEPT
            !.conn.txn["race_results"] = @ \cup {[id |-> NextId(st.conn.txn["race_results"]),
                    race_id |-> race_id, driver_id |-> driver_id,
                    constructor_id |-> constructor_id, vals |-> vals]}]
InsertResult(st, race_id, driver_id, constructor_id, vals) ==
    [st EXCEPT
        !.conn.txn["race_results"] = @ \cup {[id |-> NextId(st.conn.txn["race_results"]),
                race_id |-> race_id, driver_id |-> driver_id,
                constructor_id |-> constructor_id, vals |-> vals]}]

InsertWeather(st, race_id, vals) ==
    [st EXCEPT
        !.conn.txn["weather_conditions"] = @ \cup {[id |-> NextId(st.conn.txn["weather_conditions"]),
                race_id |-> race_id, vals |-> vals]}]

\* cursor.execute of the n-th statement of the pass: it raises when the
\* statement is the one that fails, or when a table it names does not exist
Execute(st, tables, after) ==
    IF st.failed THEN st
    ELSE IF st.n + 1 = st.failAt \/ ~(tables \subseteq schema)
    THEN [st EXCEPT !.failed = TRUE, !.n = @ + 1]
    ELSE [after EXCEPT !.n = st.n + 1]

\* connection.commit() and connection.rollback()
rollback_missing(c) == c
rollback(c) == [committed |-> c.committed, txn |-> c.committed]
commit(c)   == [committed |-> c.txn, txn |-> c.txn]

RECURSIVE Unique(_, _, _)
\* df[col].unique(): the values of the column in order of first appearance
Unique(df, col, i) ==
    IF i > Len(df) THEN <<>>
    ELSE LET rest == Unique(df, col, i + 1)
         IN  <<df[i][col]>> \o SelectSeq(rest, LAMBDA v : v # df[i][col])

RECURSIVE ImportNames(_, _, _, _)
\* lines 159-172
ImportNames(st, table, names, i) ==
    IF i > Len(names) THEN st
    ELSE IF notna(names[i])
         THEN ImportNames(Execute(st, {table}, InsertIgnoreName(st, table, "id", names[i])),
                          table, names, i + 1)
         ELSE ImportNames(st, table, names, i + 1)

\* lines 240-253: INSERT INTO weather_conditions
InsertWeatherRow(st, row) ==
    Execute(st, {"weather_conditions"},
        InsertWeather(st,
            IdOfRace(st.conn.txn["races"], row["year"].n, row["round"].n),
            [c \in WeatherCols |-> safe_value(row[c])]))

\* lines 220-237: INSERT INTO race_results
InsertResultRow(st, row) ==
    Execute(st, {"race_results"},
        InsertResult(st,
            IdOfRace(st.conn.txn["races"], row["year"].n, row["round"].n),
            IdOfName(st.conn.txn["drivers"], row["driver"]),
            IdOfName(st.conn.txn["constructors"], row["constructor"]),
            [c \in ResultCols |-> safe_value(row[c])]))

\* lines 214-217: constructor_result = cursor.fetchone(); continue when empty
FetchConstructor(st, row) ==
    IF st.failed \/ ~HasName(st.conn.txn["constructors"], row["constructor"]) THEN st
    ELSE InsertWeatherRow(InsertResultRow(st, row), row)

\* lines 205-213: driver_result = cursor.fetchone(); continue when empty;
\* then SELECT constructor_id
FetchDriver_raises(st, row) ==
    IF st.failed THEN st
    ELSE IF ~HasName(st.conn.txn["drivers"], row["driver"]) THEN [st EXCEPT !.failed = TRUE]
    ELSE FetchConstructor(Execute(st, {"constructors"}, st), row)
FetchDriver(st, row) ==
    IF st.failed \/ ~HasName(st.conn.txn["drivers"], row["driver"]) THEN st
    ELSE FetchConstructor(Execute(st, {"constructors"}, st), row)

\* lines 200-204: SELECT driver_id
SelectDriver(st, row) ==
    FetchDriver(Execute(st, {"drivers"}, st), row)

\* lines 195-199: SELECT race_id
SelectIds(st, row) ==
    SelectDriver(Execute(st, {"races"}, st), row)

\* lines 183-192: INSERT IGNORE INTO races
InsertRaceRow(st, row) ==
    Execute(st, {"races"},
        InsertIgnoreRace(st, row["year"].n, row["round"].n, row["race_name"],
            safe_value(row["circuit"]),
            IF notna(row["date"]) THEN to_datetime(row["date"]) ELSE None))

\* lines 180-253, one row of the DataFrame
ImportRow_abort(st, row) ==
    IF st.failed THEN st
    ELSE IF isna(row["year"]) \/ isna(row["round"]) THEN [st EXCEPT !.failed = TRUE]
    ELSE SelectIds(InsertRaceRow(st, row), row)
ImportRow(st, row) ==
    IF st.failed \/ isna(row["year"]) \/ isna(row["round"]) THEN st
    ELSE SelectIds(InsertRaceRow(st, row), row)

\* rows counts the iterations of the loop that completed
CountRow(after) ==
    IF after.failed THEN after ELSE [after EXCEPT !.rows = @ + 1]

RECURSIVE ImportRows(_, _, _)
\* line 176: the rows in order
ImportRows(st, df, i) ==
    IF i > Len(df) \/ st.failed THEN st
    ELSE ImportRows(CountRow(ImportRow(st, df[i])), df, i + 1)

\* line 255: connection.commit()
CommitPass(st) ==
    Execute(st, {}, [st EXCEPT !.conn = commit(st.conn), !.commits = @ + 1,
                               !.commitRows = st.rows])

\* lines 257-263: both except clauses roll back
ExceptPass(st) ==
    IF st.failed
    THEN [st EXCEPT !.conn = rollback(st.conn), !.rollbacks = @ + 1,
                    !.dirty = (st.conn.txn # st.conn.committed)]
    ELSE st

StartPass(c, failAt) ==
    [conn |-> c, n |-> 0, failed |-> FALSE, failAt |-> failAt,
     commits |-> 0, rollbacks |-> 0, rows |-> 0, commitRows |-> 0,
     dirty |-> FALSE]

\* lines 151-265: the whole pass; failAt is the statement that raises (0: none)
ImportPass(c, df, failAt) ==
    ExceptPass(CommitPass(
        ImportRows(
            ImportNames(
                ImportNames(StartPass(c, failAt), "drivers", Unique(df, "driver", 1), 1),
                "constructors", Unique(df, "constructor", 1), 1),
            df, 1)))

\* the DataFrames imported
MaxRows    == 2        \* rows of a DataFrame
MaxImports == 2        \* import passes between two schema resets
MaxRankings == 1       \* rows of the rankings table

BaseRow ==
    [c \in Columns |->
        CASE c = "driver"      -> S("Verstappen")
          [] c = "constructor" -> S("Red Bull")
          [] c = "year"        -> N(2023)
          [] c = "round"       -> N(1)
          [] c = "race_name"   -> S("Bahrain Grand Prix")
          [] c = "circuit"     -> S("Sakhir")
          [] c = "date"        -> S("2023-03-05")
          [] c \in {"race_time", "fastest_lap_time"} -> S("1:33:56")
          [] OTHER             -> N(1)]

RowPool ==
    << BaseRow,
       \* another race, with missing values
       [BaseRow EXCEPT !["driver"] = S("Perez"), !["round"] = N(2),
                       !["race_name"] = S("Saudi Arabian Grand Prix"),
                       !["circuit"] = NaN, !["date"] = NaN, !["points"] = NaN,
                       !["race_time"] = S("nan"), !["temperature"] = NaN],
       \* no year
       [BaseRow EXCEPT !["driver"] = S("Alonso"), !["year"] = NaN],
       \* no driver, and the first race under another name
       [BaseRow EXCEPT !["driver"] = NaN, !["race_name"] = S("Sakhir GP"),
                       !["circuit"] = S("Manama")] >>

\* the rows of the pool at the positions idx, in the order of the pool
RowsAt(idx) == SelectSeq(RowPool, LAMBDA row : \E i \in idx : RowPool[i] = row)
DataFrames ==
    { RowsAt(idx) : idx \in {I \in SUBSET (1..Len(RowPool)) : Cardinality(I) <= MaxRows} }

\* the most statements a pass over any DataFrame executes: for each row the
\* insert of its driver, the insert of its constructor and the six statements
\* of the loop, then the commit
MaxStatements  == 8 * MaxRows + 1

NoDone == [op |-> "none", df |-> <<>>, again |-> FALSE, failed |-> FALSE, commits |-> 0,
           rollbacks |-> 0, commitRows |-> 0, dirty |-> FALSE, before |-> EmptyDb,
           ok |-> TRUE, rid |-> 0, log |-> <<>>]

import_f1_data(df, failAt) ==
    /\ passes < MaxImports
    /\ \E r \in {ImportPass(conn, df, failAt)} :
        /\ failAt > 0 => r.failed
        /\ passes' = passes + 1
        /\ conn' = r.conn
        /\ done' = [NoDone EXCEPT !.op = "import", !.df = df,
                        !.again = (done.op = "import" /\ ~done.failed /\ done.df = df),
                        !.failed = r.failed, !.commits = r.commits,
                        !.rollbacks = r.rollbacks, !.commitRows = r.commitRows,
                        !.dirty = r.dirty, !.before = conn.committed]
        /\ UNCHANGED schema

\* create_database_structure, lines 51-68: the drop statements, in this order
DropOrder_parents_first ==
    <<"races", "drivers", "constructors", "weather_conditions", "race_results",
      "rankings">>
DropOrder == <<"weather_conditions", "race_results", "rankings", "races",
               "drivers", "constructors">>
\* lines 70-146: the create statements, in this order
CreateOrder == <<"constructors", "drivers", "races", "weather_conditions",
                 "race_results", "rankings">>

\* cursor.execute(statement): the statements the function executed, in order,
\* each with the tables that existed when it was executed
Statement(kind, t, raised, tables) ==
    [kind |-> kind, table |-> t, raised |-> raised, tables |-> tables]
Logged(rs, statement) == [rs EXCEPT !.log = Append(@, statement)]

\* a DDL statement commits the open transaction
DropTable(rs, t) ==
    [rs EXCEPT !.schema = @ \ {t},
               !.conn = [committed |-> [rs.conn.txn EXCEPT ![t] = {}],
                         txn       |-> [rs.conn.txn EXCEPT ![t] = {}]]]
CreateTable(rs, t) ==
    [rs EXCEPT !.schema = @ \cup {t}, !.conn = commit(rs.conn)]

RECURSIVE DropLoop(_, _, _)
\* DROP TABLE IF EXISTS raises when a table that references it still exists,
\* or when the statement is one of those that fail; the loop goes on
DropLoop(rs, dropFails, i) ==
    IF i > Len(DropOrder) THEN rs
    ELSE LET t == DropOrder[i]
             raises == \/ i \in dropFails
                       \/ t \in rs.schema /\ ChildrenOf(t) \cap rs.schema # {}
         IN  DropLoop(Logged(IF raises THEN [rs EXCEPT !.dropErrors = @ + 1]
                                 ELSE DropTable(rs, t),
                             Statement("DROP", t, raises, rs.schema)),
                      dropFails, i + 1)

\* CREATE TABLE raises when the table exists, when a table it references does
\* not, or when the statement is the one that fails
CreateRaises(rs, createFailAt, i) ==
    \/ i = createFailAt
    \/ CreateOrder[i] \in rs.schema
    \/ ~(ParentsOf(CreateOrder[i]) \subseteq rs.schema)

\* lines 144-146: except Error: the error is printed, the function returns False
CreateFailed_reported_ok(rs, t) ==
    Logged(rs, Statement("CREATE", t, TRUE, rs.schema))
CreateFailed(rs, t) ==
    Logged([rs EXCEPT !.ok = FALSE], Statement("CREATE", t, TRUE, rs.schema))

RECURSIVE CreateLoop(_, _, _)
\* lines 138-146: the function returns False at the first statement that raises
CreateLoop(rs, createFailAt, i) ==
    IF i > Len(CreateOrder) THEN rs
    ELSE IF CreateRaises(rs, createFailAt, i)
    THEN CreateFailed(rs, CreateOrder[i])
    ELSE CreateLoop(Logged(CreateTable(rs, CreateOrder[i]),
                           Statement("CREATE", CreateOrder[i], FALSE, rs.schema)),
                    createFailAt, i + 1)

create_database_structure(dropFails, createFailAt) ==
    \E rs \in {CreateLoop(DropLoop([schema |-> schema, conn |-> conn, ok |-> TRUE,
                                    dropErrors |-> 0, log |-> <<>>], dropFails, 1),
                          createFailAt, 1)} :
        /\ schema' = rs.schema
        /\ conn' = rs.conn
        /\ passes' = IF rs.conn.committed = EmptyDb THEN 0 ELSE passes
        /\ done' = [NoDone EXCEPT !.op = "reset", !.ok = rs.ok,
                        !.failed = (rs.dropErrors > 0), !.log = rs.log]

\* DELETE FROM races WHERE race_id = rid, under the foreign keys of the schema:
\* ON DELETE CASCADE deletes the rows that reference the race, any other rule
\* rejects the statement while such rows exist
DeleteFrom_races_only(db, rid) ==
    [t \in Tables |-> IF t = "races" THEN {r \in db[t] : r.id # rid} ELSE db[t]]
DeleteFrom(db, rid) ==
    [t \in Tables |->
        IF t = "races" THEN {r \in db[t] : r.id # rid}
        ELSE {r \in db[t] :
                ~\E fk \in ForeignKeys :
                    /\ fk.child = t /\ fk.parent = "races" /\ fk.onDelete = "CASCADE"
                    /\ r[fk.col] = rid}]
DeleteRejected(db, rid) ==
    \E fk \in ForeignKeys :
        /\ fk.parent = "races" /\ fk.onDelete # "CASCADE"
        /\ \E r \in db[fk.child] : r[fk.col] = rid

DeleteRace(rid) ==
    /\ "races" \in schema
    /\ \E r \in conn.committed["races"] : r.id = rid
    /\ conn' = IF DeleteRejected(conn.txn, rid) THEN conn
               ELSE commit([conn EXCEPT !.txn = DeleteFrom(conn.txn, rid)])
    /\ done' = [NoDone EXCEPT !.op = "delete_race", !.rid = rid,
                    !.before = conn.committed,
                    !.failed = DeleteRejected(conn.txn, rid)]
    /\ UNCHANGED <<schema, passes>>

\* INSERT INTO rankings (race_id, driver_id, constructor_id, points, position):
\* the foreign keys require the three rows it references
InsertRanking(race_id, driver_id, constructor_id) ==
    /\ Tables \subseteq schema
    /\ Cardinality(conn.committed["rankings"]) < MaxRankings
    /\ \E r \in conn.committed["races"] : r.id = race_id
    /\ \E r \in conn.committed["drivers"] : r.id = driver_id
    /\ \E r \in conn.committed["constructors"] : r.id = constructor_id
    /\ conn' = commit([conn EXCEPT !.txn["rankings"] = @ \cup
                    {[id |-> NextId(conn.txn["rankings"]), race_id |-> race_id,
                      driver_id |-> driver_id, constructor_id |-> constructor_id,
                      points |-> N(25), position |-> N(1)]}])
    /\ done' = [NoDone EXCEPT !.op = "insert_ranking", !.rid = race_id]
    /\ UNCHANGED <<schema, passes>>

(***************************************************************************)
(* Specifications of the cache, of the Ergast client and of the weather    *)
(* client.                                                                 *)
(***************************************************************************)
IdleDb == [committed |-> <<>>, txn |-> <<>>]

CacheInit ==
    /\ cfg \in {[DefaultConfig EXCEPT !.sameFs = b] : b \in BOOLEAN}
    /\ files = [k \in CacheKeys |-> NoFile]
    /\ tmp = NoFile
    /\ tmpLeft = FALSE
    /\ pc = "idle"
    /\ cur = NoCur
    /\ last = NoLast
    /\ call = NoCall
    /\ http = NoHttp
    /\ api = NoApi
    /\ arg = NoArg
    /\ conn = IdleDb /\ schema = {} /\ passes = 0 /\ done = <<>>

CacheNext ==
    /\ \/ \E key \in CacheKeys, data \in CacheData : SetOpen(key, data)
       \/ SetDump
       \/ SetMoveRename
       \/ SetMoveCopyOpen
       \/ SetMoveCopyWrite
       \/ SetMoveCopyUnlink
       \/ SetExcept
       \/ Crash
       \/ \E key \in CacheKeys : Get(key)
       \/ \E key \in CacheKeys, unlinkFails \in BOOLEAN : Invalidate(key, unlinkFails)
       \/ \E pattern \in Patterns : Clear(pattern)
    /\ UNCHANGED <<cfg, clientVars, dbVars>>

Spec == CacheInit /\ [][CacheNext]_vars

ClientInit ==
    /\ cfg \in Configs
    /\ files = [k \in CacheKeys |-> NoFile]
    /\ tmp = NoFile
    /\ tmpLeft = FALSE
    /\ pc = "idle"
    /\ cur = NoCur
    /\ last = NoLast
    /\ call = NoCall
    /\ http = NoHttp
    /\ api = NoApi
    /\ arg = NoArg
    /\ conn = IdleDb /\ schema = {} /\ passes = 0 /\ done = <<>>

ClientNext ==
    /\ \/ \E year \in Years, t \in Transports(ErgastBodies) : get_season_data(year, t)
       \/ \E year \in Years, round \in Rounds, t \in Transports(ErgastBodies) :
             get_race_results(year, round, t)
       \/ \E key \in CacheKeys, data \in CachedBodies : CachePut(key, data)
    /\ UNCHANGED <<cfg, setVars, arg, http, api, dbVars>>

ClientSpec == ClientInit /\ [][ClientNext]_vars

WeatherInit ==
    /\ cfg = DefaultConfig
    /\ files = [k \in CacheKeys |-> NoFile]
    /\ tmp = NoFile
    /\ tmpLeft = FALSE
    /\ pc = "idle"
    /\ cur = NoCur
    /\ last = NoLast
    /\ call = NoCall
    /\ http = NoHttp
    /\ api = NoApi
    /\ arg \in [resp : WeatherResponses, t : Transports({PyNone})]
    /\ conn = IdleDb /\ schema = {} /\ passes = 0 /\ done = <<>>

WeatherNext ==
    /\ get_weather_data
    /\ UNCHANGED <<cfg, setVars, arg, http, api, dbVars>>

WeatherSpec == WeatherInit /\ [][WeatherNext]_vars

ScraperInit ==
    /\ cfg \in {[DefaultConfig EXCEPT !.use_playwright = b] : b \in BOOLEAN}
    /\ files = [k \in CacheKeys |-> NoFile]
    /\ tmp = NoFile
    /\ tmpLeft = FALSE
    /\ pc = "idle"
    /\ cur = NoCur
    /\ last = NoLast
    /\ call = NoCall
    /\ http = NoHttp
    /\ api = NoApi
    /\ arg \in [script : FetchScripts(IF cfg.use_playwright THEN PlaywrightOutcomes
                                     ELSE RequestsOutcomes),
                page : Pages]
    /\ conn = IdleDb /\ schema = {} /\ passes = 0 /\ done = <<>>

ScraperNext ==
    /\ fetch_page
    /\ UNCHANGED <<cfg, setVars, arg, http, api, dbVars>>

ScraperSpec == ScraperInit /\ [][ScraperNext]_vars

HttpInit ==
    /\ cfg = DefaultConfig
    /\ files = [k \in CacheKeys |-> NoFile]
    /\ tmp = NoFile
    /\ tmpLeft = FALSE
    /\ pc = "idle"
    /\ cur = NoCur
    /\ last = NoLast
    /\ call = NoCall
    /\ http = NoHttp
    /\ api = NoApi
    /\ arg = NoArg
    /\ conn = IdleDb /\ schema = {} /\ passes = 0 /\ done = <<>>

ApiInit ==
    /\ cfg = DefaultConfig
    /\ files = [k \in CacheKeys |-> NoFile]
    /\ tmp = NoFile
    /\ tmpLeft = FALSE
    /\ pc = "idle"
    /\ cur = NoCur
    /\ last = NoLast
    /\ call = NoCall
    /\ http = NoHttp
    /\ api \in {[NoApi EXCEPT !.variant = v] : v \in Variants}
    /\ arg = NoArg
    /\ conn = IdleDb /\ schema = {} /\ passes = 0 /\ done = <<>>

ApiNext ==
    /\ \/ \E password \in {"API_PASSWORD", "wrong", ""}, duration \in 1..MaxDuration :
             generate_token(password, duration)
       \/ \E endpoint \in Endpoints(api.variant), header \in Headers,
             bearerStatus \in {401, 403} :
                get_protected(endpoint, header, bearerStatus)
       \/ Tick
    /\ UNCHANGED <<cfg, files, setVars, call, arg, http, dbVars>>

ApiSpec == ApiInit /\ [][ApiNext]_vars

\* the steps the program takes by itself
HttpProgram ==
    /\ \/ \E op \in HttpCallers : HttpSend(op)
       \/ HttpWait
       \/ HttpExpire
    /\ UNCHANGED <<cfg, files, setVars, call, arg, api, dbVars>>

\* the steps of the server
HttpServer ==
    /\ \E ok \in BOOLEAN : HttpRespond(ok)
    /\ UNCHANGED <<cfg, files, setVars, call, arg, api, dbVars>>

HttpNext == HttpProgram \/ HttpServer

\* the program keeps running; nothing obliges a server to answer
HttpSpec == HttpInit /\ [][HttpNext]_vars /\ WF_vars(HttpProgram)

(***************************************************************************)
(* Properties of the cache                                                 *)
(***************************************************************************)

\* C1 (as stated): whatever JSON-serializable value v is, get(key) right after
\* a completed set(key, v) returns a value equal to v.
C1_RoundTripAnyValue ==
    last.op = "set" => PyEq(get(files, last.key), last.data)

\* C1 (amended): for every value v that JSON itself represents (null, numbers,
\* strings, lists, dicts with str keys), get(key) right after a completed
\* set(key, v) returns a value equal to v, also when an older value was stored.
C1_RoundTripJsonValue ==
    (last.op = "set" /\ IsJson(last.data)) => PyEq(get(files, last.key), last.data)

C1_Witness ==
    /\ last.op = "set"
    /\ last.data = PyDict(<<PyEntry(PyStr(<<"a">>), PyInt(1))>>)
    /\ last.prior = PyList(<<PyInt(1)>>)
    /\ PyEq(get(files, last.key), last.data)

\* C2: when set is interrupted at any step, get(key) returns the value stored
\* before the set began or absence, never another document.
C2_CrashLeavesPriorOrAbsent ==
    last.op = "crash" =>
        \/ PyEq(get(files, last.key), last.prior)
        \/ PyEq(get(files, last.key), PyNone)

\* C29: a set that fails raises nothing, leaves get(key) returning the value
\* stored before it, and leaves no temporary file behind.
C29_SetFailureCleanup ==
    last.op = "set_failed" =>
        /\ last.raised = "none"
        /\ PyEq(get(files, last.key), last.prior)
        /\ last.tmp = NoFile

\* C12: get never raises: it returns the stored value when the file of the key
\* exists and parses, and None when the file is missing or does not parse.
C12_GetNeverRaises ==
    last.op = "get" =>
        /\ last.raised = "none"
        /\ IF files[last.key].exists /\ json_load(files[last.key].text).ok
           THEN PyEq(last.result, json_load(files[last.key].text).v)
           ELSE last.result = PyNone

C12_Witness ==
    /\ last.op = "get"
    /\ files[last.key].exists
    /\ Len(files[last.key].text) > 0
    /\ ~json_load(files[last.key].text).ok
    /\ last.raised = "none"
    /\ last.result = PyNone

\* a key matches a glob pattern
C13_Matches(key, pattern) == fnmatch(pattern.chars, 1, KeyChars(key), 1)

\* C13 (as stated): clear() with no pattern removes every entry; clear(pattern)
\* removes the entries whose key matches the pattern and leaves every other
\* entry as it was.
C13_ClearAsStated ==
    last.op = "clear" =>
        \A k \in CacheKeys :
            IF last.pattern.none \/ C13_Matches(k, last.pattern)
            THEN ~files[k].exists
            ELSE files[k] = last.before[k]

\* C13 (amended): clear() with no pattern, or with the empty pattern, removes
\* every entry; clear(pattern) with a non-empty pattern removes the entries
\* whose key matches the pattern and leaves every other entry as it was.
C13_ClearByPattern ==
    last.op = "clear" =>
        \A k \in CacheKeys :
            IF \/ last.pattern.none
               \/ last.pattern.chars = <<>>
               \/ C13_Matches(k, last.pattern)
            THEN ~files[k].exists
            ELSE /\ files[k] = last.before[k]
                 /\ PyEq(get(files, k), get(last.before, k))

C13_Witness ==
    /\ last.op = "clear"
    /\ last.pattern = Pattern(<<"s", "e", "a", "s", "o", "n", "_", "*">>)
    /\ last.before[SeasonKey(2023)].exists
    /\ ~files[SeasonKey(2023)].exists
    /\ files[RaceKey(2023, 1)].exists
    /\ get(files, RaceKey(2023, 1)) = PyList(<<PyInt(1)>>)

\* C14: clear returns the number of entries it removed.
C14_ClearReturnsCount ==
    last.op = "clear" =>
        /\ last.raised = "none"
        /\ last.result =
              PyInt(Cardinality({k \in CacheKeys : last.before[k].exists /\ ~files[k].exists}))

\* C15: invalidate(key) returns True exactly when the file of the key existed
\* and was removed, and False otherwise; after True, get(key) returns None; the
\* other entries are unchanged; and no step but invalidate or clear ever
\* removes an entry.
C15_InvalidateState ==
    last.op = "invalidate" =>
        /\ last.raised = "none"
        /\ last.result \in {PyBool(TRUE), PyBool(FALSE)}
        /\ (last.result = PyBool(TRUE)) <=>
                (last.before[last.key].exists /\ ~files[last.key].exists)
        /\ (last.result = PyBool(TRUE)) => get(files, last.key) = PyNone
        /\ (last.result = PyBool(FALSE)) => files[last.key] = last.before[last.key]
        /\ \A k \in CacheKeys \ {last.key} : files[k] = last.before[k]
C15_RemovedOnlyExplicitly ==
    \A k \in CacheKeys :
        (files[k].exists /\ ~files'[k].exists) => last'.op \in {"invalidate", "clear"}
C15_Invalidate ==
    /\ []C15_InvalidateState
    /\ [][C15_RemovedOnlyExplicitly]_vars

C15_Witness ==
    /\ last.op = "invalidate"
    /\ last.result = PyBool(TRUE)
    /\ last.before[last.key].exists
    /\ ~files[last.key].exists
    /\ \E k \in CacheKeys \ {last.key} : files[k].exists /\ get(files, k) # PyNone

(***************************************************************************)
(* Properties of the API clients                                           *)
(***************************************************************************)
ErgastOps == {"get_season_data", "get_race_results"}

\* C3: when every transport attempt fails, the operation makes exactly the
\* configured max_retries attempts and then fails with APIError.
C3_RetryBound ==
    (call.op \in ErgastOps /\ call.transport.always) =>
        (call.attempts = cfg.max_retries /\ call.raised = "APIError")

\* C4: when the key of the request is in the cache, the operation returns the
\* cached value and issues no HTTP request.
C4_CacheFirst ==
    (call.op \in ErgastOps /\ call.hit) =>
        /\ call.attempts = 0
        /\ call.raised = "none"
        /\ PyEq(call.result, GetExcept(GetTry(call.stored)).value)

\* C5: after a successful get_season(year) on a cache miss, the cache holds
\* season_{year}, and the returned and the cached value equal the response body.
C5_SeasonStored ==
    (call.op = "get_season_data" /\ ~call.hit /\ call.raised = "none") =>
        /\ PyEq(call.result, call.transport.body)
        /\ call.stored.exists
        /\ json_load(call.stored.text).ok
        /\ PyEq(json_load(call.stored.text).v, call.transport.body)

\* C6: on a delivered weather response whose six series all have at least 15
\* values, each field of the record is the value at index 14 (the 15th) of its
\* series; on a delivered response with a shorter or missing series, or no
\* hourly map, the operation fails with APIError.
C6_Delivered == call.op = "get_weather_data" /\ ~TransportFails(call.transport, call.attempts)
C6_Complete(resp) ==
    /\ resp.hasHourly
    /\ \A name \in {"temperature_2m", "relative_humidity_2m", "wind_speed_10m",
                    "wind_direction_10m", "precipitation", "surface_pressure"} :
            resp.lens[name] >= 15
C6_Value(resp, name) == SeriesOf(name, resp.lens[name])[15]
C6_WeatherExtraction ==
    C6_Delivered =>
        IF C6_Complete(call.resp)
        THEN /\ call.raised = "none"
             /\ call.weather.temperature    = C6_Value(call.resp, "temperature_2m")
             /\ call.weather.humidity       = C6_Value(call.resp, "relative_humidity_2m")
             /\ call.weather.wind_speed     = C6_Value(call.resp, "wind_speed_10m")
             /\ call.weather.wind_direction = C6_Value(call.resp, "wind_direction_10m")
             /\ call.weather.precipitation  = C6_Value(call.resp, "precipitation")
             /\ call.weather.pressure       = C6_Value(call.resp, "surface_pressure")
        ELSE call.raised = "APIError"

C6_Witness ==
    /\ C6_Delivered
    /\ C6_Complete(call.resp)
    /\ call.resp.lens["temperature_2m"] = 16
    /\ call.resp.lens["surface_pressure"] = 15
    /\ call.raised = "none"
    /\ call.weather.temperature = 115
    /\ call.weather.pressure = 615

\* C16: the wait before the n-th retry is min(max_wait, max(min_wait,
\* multiplier^n)) for the configured multiplier, min_wait and max_wait, so the
\* waits never decrease and stay between min_wait and max_wait.
C16_Wait(n) ==
    Min2(cfg.retry_wait_max, Max2(cfg.retry_wait_min, Pow(cfg.retry_wait_multiplier, n)))
C16_BackoffSchedule ==
    call.op \in ErgastOps =>
        /\ \A n \in 1..Len(call.waits) :
              /\ call.waits[n] = C16_Wait(n)
              /\ call.waits[n] >= cfg.retry_wait_min
              /\ call.waits[n] <= cfg.retry_wait_max
        /\ \A n \in 1..(Len(call.waits) - 1) : call.waits[n] <= call.waits[n + 1]

\* C17: an Ergast operation that fails, on an invalid response or on exhausted
\* retries, fails with APIError or DataExtractionError, and the step leaves the
\* cache as it was.
C17_FailedCall ==
    (call' # call /\ call'.op \in ErgastOps /\ call'.raised # "none") =>
        /\ call'.raised \in {"APIError", "DataExtractionError"}
        /\ files' = files
C17_NoNegativeCaching == [][C17_FailedCall]_vars

C17_Witness ==
    /\ call.op = "get_race_results"
    /\ call.transport.always
    /\ call.attempts = 3
    /\ call.raised = "APIError"
    /\ ~call.hit
    /\ ~files[RaceKey(call.year, call.round)].exists

\* C18: on a delivered response, get_season_data succeeds exactly when the
\* response is an object with MRData holding RaceTable, get_race_results exactly
\* when RaceTable also holds a non-empty Races list; a call that succeeds
\* returns the response as it came, any other fails with APIError.
C18_Has(c, k) == c.t = "dict" /\ \E i \in 1..Len(c.items) : c.items[i].items[1] = Str(k)
C18_At(c, k)  == (CHOOSE e \in {c.items[i] : i \in 1..Len(c.items)} : e.items[1] = Str(k)).items[2]
C18_SeasonShape(body) ==
    /\ C18_Has(body, "MRData")
    /\ C18_Has(C18_At(body, "MRData"), "RaceTable")
C18_RaceShape(body) ==
    /\ C18_SeasonShape(body)
    /\ C18_Has(C18_At(C18_At(body, "MRData"), "RaceTable"), "Races")
    /\ C18_At(C18_At(C18_At(body, "MRData"), "RaceTable"), "Races").t = "list"
    /\ C18_At(C18_At(C18_At(body, "MRData"), "RaceTable"), "Races").items # <<>>
C18_Delivered ==
    call.op \in ErgastOps /\ ~TransportFails(call.transport, call.attempts)
C18_Valid ==
    IF call.op = "get_season_data" THEN C18_SeasonShape(call.transport.body)
    ELSE C18_RaceShape(call.transport.body)
C28_InvalidNotRetried ==
    (C18_Delivered /\ ~C18_Valid) =>
        /\ call.raised = "APIError"
        /\ call.attempts = call.transport.fails + 1
        /\ Len(call.waits) = call.transport.fails
        /\ call.transport.fails = 0 => (call.attempts = 1 /\ call.waits = <<>>)

C28_Witness ==
    /\ call.op = "get_race_results"
    /\ call.transport.fails = 0 /\ ~call.transport.always
    /\ call.transport.body = Envelope(Obj1("Races", PyList(<<>>)))
    /\ call.attempts = 1 /\ call.waits = <<>>
    /\ call.raised = "APIError"

\* C19: fetch_page returns the text of the page when an attempt succeeds, and
\* returns None, raising nothing, when every attempt fails, with either backend.
C19_Succeeded == \E i \in 1..Len(call.script) : call.script[i].outcome = "ok"
C19_FetchContract ==
    call.op = "fetch_page" =>
        /\ call.raised = "none"
        /\ IF C19_Succeeded THEN call.result = call.transport.body
           ELSE call.result = PyNone

\* C20: a call that succeeds has slept exactly one politeness delay, drawn from
\* [min_delay, max_delay], on the first attempt or after retries; the attempts
\* that failed have slept none, so a call that fails has slept none at all.
C20_PolitenessDelay ==
    call.op = "fetch_page" =>
        /\ \A i \in 1..Len(call.delays) :
              call.delays[i] >= cfg.min_delay /\ call.delays[i] <= cfg.max_delay
        /\ IF call.raised = "none" THEN Len(call.delays) = 1
           ELSE Len(call.delays) = 0

(***************************************************************************)
(* Specification of the relational store                                   *)
(***************************************************************************)
Ids == 1..(MaxRows * MaxImports + MaxRankings)

DbInit ==
    /\ cfg = DefaultConfig
    /\ files = [k \in CacheKeys |-> NoFile]
    /\ tmp = NoFile
    /\ tmpLeft = FALSE
    /\ pc = "idle"
    /\ cur = NoCur
    /\ last = NoLast
    /\ call = NoCall
    /\ http = NoHttp
    /\ api = NoApi
    /\ arg = NoArg
    /\ conn = [committed |-> EmptyDb, txn |-> EmptyDb]
    /\ schema = Tables
    /\ passes = 0
    /\ done = NoDone

DbNext ==
    /\ \/ \E df \in DataFrames, failAt \in 0..MaxStatements : import_f1_data(df, failAt)
       \/ \E dropFails \in {{}}, createFailAt \in {0} :
                create_database_structure(dropFails, createFailAt)
       \/ \E rid \in Ids : DeleteRace(rid)
       \/ \E res \in conn.committed["race_results"] :
             InsertRanking(res.race_id, res.driver_id, res.constructor_id)
    /\ UNCHANGED <<cfg, files, setVars, clientVars>>

DbSpec == DbInit /\ [][DbNext]_vars

MaxDropFails == 2      \* drop statements that fail in one reset, for other reasons

\* the reset on a new database and on what earlier resets left
SchemaInit ==
    /\ cfg = DefaultConfig
    /\ files = [k \in CacheKeys |-> NoFile]
    /\ tmp = NoFile
    /\ tmpLeft = FALSE
    /\ pc = "idle"
    /\ cur = NoCur
    /\ last = NoLast
    /\ call = NoCall
    /\ http = NoHttp
    /\ api = NoApi
    /\ arg = NoArg
    /\ conn = [committed |-> EmptyDb, txn |-> EmptyDb]
    /\ schema = {}
    /\ passes = 0
    /\ done = NoDone

SchemaNext ==
    /\ \E dropFails \in {F \in SUBSET (1..Len(DropOrder)) : Cardinality(F) <= MaxDropFails},
          createFailAt \in 0..Len(CreateOrder) :
            create_database_structure(dropFails, createFailAt)
    /\ UNCHANGED <<cfg, files, setVars, clientVars>>

SchemaSpec == SchemaInit /\ [][SchemaNext]_vars

\* DataFrames of one row whose cells are a value, NaN, None or the text 'nan'
LoadRows ==
    {[BaseRow EXCEPT !["race_name"] = a, !["circuit"] = b, !["date"] = c,
                     !["points"] = d, !["race_time"] = e, !["temperature"] = f] :
        a \in {S("Bahrain Grand Prix"), NaN, None, S("nan")},
        b \in {S("Sakhir"), NaN, None, S("nan")},
        c \in {S("2023-03-05"), NaN, None},
        d \in {N(1), NaN, None},
        e \in {S("1:33:56"), NaN, S("nan")},
        f \in {N(1), NaN}}

\* the loader on a new database: every row of the store holds the parameters
\* its INSERT statement was passed
LoadInit ==
    /\ cfg = DefaultConfig
    /\ files = [k \in CacheKeys |-> NoFile]
    /\ tmp = NoFile
    /\ tmpLeft = FALSE
    /\ pc = "idle"
    /\ cur = NoCur
    /\ last = NoLast
    /\ call = NoCall
    /\ http = NoHttp
    /\ api = NoApi
    /\ arg \in [df : {<<row>> : row \in LoadRows}]
    /\ conn = [committed |-> EmptyDb, txn |-> EmptyDb]
    /\ schema = Tables
    /\ passes = 0
    /\ done = NoDone

LoadNext ==
    /\ import_f1_data(arg.df, 0)
    /\ UNCHANGED <<cfg, files, setVars, clientVars>>

LoadSpec == LoadInit /\ [][LoadNext]_vars

(***************************************************************************)
(* Properties of the HTTP requests                                         *)
(***************************************************************************)
\* a request in flight carries a timeout and has not outlived it
C21_CallBounded ==
    http.pc = "sent" =>
        /\ timeout(http.op) # NoTimeout
        /\ http.elapsed <= timeout(http.op)

\* a timeout is a failed attempt like any other: the operation fails only
\* with its third failed attempt
C21_TimeoutRetried ==
    /\ http.pc = "raised" <=> Len(http.failures) = StopAfterAttempt
    /\ http.attempt = IF http.pc \in {"idle", "raised"} THEN Len(http.failures)
                      ELSE Len(http.failures) + 1

\* C21: every HTTP request of the season-results client, the weather client
\* and the page fetcher is bounded by a timeout, a request that times out is
\* a failed attempt that is retried until the attempts are exhausted, and
\* every operation eventually returns or fails.
C21_Timeouts ==
    /\ [](C21_CallBounded /\ C21_TimeoutRetried)
    /\ <>(http.pc \in {"returned", "raised"})

(***************************************************************************)
(* Properties of the loader and of the schema                              *)
(***************************************************************************)
UniqueTables == {"races", "drivers", "constructors"}
Count(db, t) == Cardinality(db[t])

\* C7: a pass over the DataFrame that the pass before it imported leaves the
\* row counts of races, drivers and constructors as they were, and no two rows
\* ever share a driver name, a constructor name or a (year, round).
C7_ImportIdempotent ==
    /\ (done.op = "import" /\ done.again) =>
            \A t \in UniqueTables : Count(conn.committed, t) = Count(done.before, t)
    /\ \A t \in {"drivers", "constructors"} :
            \A r1, r2 \in conn.committed[t] : r1.name = r2.name => r1 = r2
    /\ \A r1, r2 \in conn.committed["races"] :
            (r1.year = r2.year /\ r1.round = r2.round) => r1 = r2

C7_Witness ==
    /\ done.op = "import" /\ done.again /\ ~done.failed
    /\ Len(done.df) = 2
    /\ Count(conn.committed, "drivers") = 2
    /\ Count(conn.committed, "races") = 2
    /\ Count(conn.committed, "race_results") = 4

\* C8: a committed pass adds one race_results row and one weather_conditions
\* row for each row of the DataFrame that is not skipped (a row is skipped when
\* its year, round, driver or constructor is missing), a repeated pass included.
C8_Processed(row) ==
    /\ row["year"].kind # "nan" /\ row["round"].kind # "nan"
    /\ row["driver"].kind # "nan" /\ row["constructor"].kind # "nan"
C8_ProcessedRows(df) == Cardinality({i \in 1..Len(df) : C8_Processed(df[i])})
C8_OneResultPerRow ==
    (done.op = "import" /\ ~done.failed) =>
        \A t \in {"race_results", "weather_conditions"} :
            Count(conn.committed, t) = Count(done.before, t) + C8_ProcessedRows(done.df)

C8_Witness ==
    /\ done.op = "import" /\ ~done.failed /\ done.again
    /\ Len(done.df) = 2
    /\ C8_ProcessedRows(done.df) = 1
    /\ Count(done.before, "race_results") = 1
    /\ Count(conn.committed, "race_results") = 2
    /\ Count(conn.committed, "weather_conditions") = 2

\* C9: a pass that completes commits once, after the last row; a pass in which
\* a statement raises commits nothing and is rolled back, so that the stored
\* rows are those from before the pass and no write of the pass is pending.
C9_Transactional ==
    done.op = "import" =>
        IF done.failed
        THEN /\ done.commits = 0
             /\ conn.committed = done.before
             /\ conn.txn = conn.committed
        ELSE /\ done.commits = 1
             /\ done.commitRows = Len(done.df)

C9_Witness ==
    /\ done.op = "import" /\ done.failed /\ done.dirty
    /\ Count(done.before, "race_results") = 1
    /\ conn.committed = done.before
    /\ conn.txn = conn.committed

\* C10: deleting a race removes the race and exactly the race_results,
\* weather_conditions and rankings rows whose race_id is that race.
C10_CascadeDelete ==
    done.op = "delete_race" =>
        /\ conn.committed["races"] = {r \in done.before["races"] : r.id # done.rid}
        /\ \A t \in {"race_results", "weather_conditions", "rankings"} :
              conn.committed[t] = {r \in done.before[t] : r.race_id # done.rid}
        /\ \A t \in {"drivers", "constructors"} : conn.committed[t] = done.before[t]

C10_Witness ==
    /\ done.op = "delete_race"
    /\ \A t \in {"race_results", "weather_conditions", "rankings"} :
          \E r \in done.before[t] : r.race_id = done.rid
    /\ \A t \in {"race_results", "weather_conditions"} :
          \E r \in conn.committed[t] : r.race_id # done.rid
    /\ \A t \in {"race_results", "weather_conditions", "rankings"} :
          ~\E r \in conn.committed[t] : r.race_id = done.rid

\* C11: in every reachable state, committed or pending, every race_results,
\* weather_conditions and rankings row references a race that exists, and every
\* race_results and rankings row references a driver and a constructor that
\* exist: no foreign key of the schema points at a missing row.
C11_Referenced(db, fk) ==
    \A r \in db[fk.child] : \E p \in db[fk.parent] : p.id = r[fk.col]
C11_NoOrphan(db) == \A fk \in ForeignKeys : C11_Referenced(db, fk)
C11_ReferentialIntegrity ==
    /\ C11_NoOrphan(conn.committed)
    /\ C11_NoOrphan(conn.txn)

C11_Witness ==
    /\ done.op = "delete_race" /\ ~done.failed
    /\ Count(done.before, "races") = 2
    /\ Count(done.before, "rankings") = 1
    /\ Count(conn.committed, "rankings") = 0
    /\ Count(conn.committed, "races") = 1
    /\ Count(conn.committed, "race_results") >= 1
    /\ Count(conn.committed, "weather_conditions") >= 1

\* C22: a pass never changes a driver, a constructor or a race that the store
\* already holds: each such row is found after the pass with the same id and
\* the same attributes, whatever the rows of the DataFrame carry under its key.
C22_UpsertNeverUpdates ==
    done.op = "import" =>
        \A t \in UniqueTables : done.before[t] \subseteq conn.committed[t]

C22_Witness ==
    /\ done.op = "import" /\ ~done.failed
    /\ \E i \in 1..Len(done.df) : \E r \in done.before["races"] :
          /\ done.df[i]["year"] = N(r.year) /\ done.df[i]["round"] = N(r.round)
          /\ done.df[i]["race_name"] # r.race_name
          /\ done.df[i]["circuit"] # r.circuit
          /\ r \in conn.committed["races"]
    /\ \E i \in 1..Len(done.df) : \E r \in done.before["drivers"] :
          done.df[i]["driver"] = S(r.name) /\ r \in conn.committed["drivers"]

\* C23: a row without year or round is skipped and the pass goes on: a pass
\* in which no statement raises completes and commits after the last row of
\* the DataFrame; the races it adds are those of rows that have year and
\* round, each of which has its race; and it adds one race_results and one
\* weather_conditions row for each row that has year, round, driver and
\* constructor, none for a row without year or round.
C23_Skipped(row) == isna(row["year"]) \/ isna(row["round"])
C23_Pass == ImportPass([committed |-> done.before, txn |-> done.before], done.df, 0)
C23_IsRaceOf(r, row) ==
    ~C23_Skipped(row) /\ r.year = row["year"].n /\ r.round = row["round"].n
C23_SkipMissingYearRound ==
    done.op = "import" =>
        /\ ~C23_Pass.failed
        /\ ~done.failed =>
            /\ conn = C23_Pass.conn
            /\ done.commits = 1 /\ done.commitRows = Len(done.df)
            /\ \A r \in conn.committed["races"] \ done.before["races"] :
                  \E i \in 1..Len(done.df) : C23_IsRaceOf(r, done.df[i])
            /\ \A i \in 1..Len(done.df) :
                  ~C23_Skipped(done.df[i]) =>
                      \E r \in conn.committed["races"] : C23_IsRaceOf(r, done.df[i])
            /\ \A t \in {"race_results", "weather_conditions"} :
                  Count(conn.committed, t) = Count(done.before, t)
                      + Cardinality({i \in 1..Len(done.df) :
                            ~C23_Skipped(done.df[i]) /\ C8_Processed(done.df[i])})

C23_Witness ==
    /\ done.op = "import" /\ ~done.failed
    /\ done.before = EmptyDb
    /\ Len(done.df) = 2
    /\ C23_Skipped(done.df[2]) /\ notna(done.df[2]["driver"])
    /\ ~C23_Skipped(done.df[1]) /\ C8_Processed(done.df[1])
    /\ Count(conn.committed, "races") = 1
    /\ Count(conn.committed, "race_results") = 1
    /\ Count(conn.committed, "weather_conditions") = 1

\* C24: every value import_f1_data passes to the store for race_name, circuit,
\* date, a result field or a weather field is NULL when the cell of the
\* DataFrame is missing, NaN or the text 'nan', and is never NaN nor 'nan'.
C24_Absent(value) == isna(value) \/ value = S("nan")
C24_Coalesced(cell, stored) ==
    /\ C24_Absent(cell) => stored = None
    /\ stored # NaN /\ stored # S("nan")
C24_NullCoalescing ==
    done.op = "import" =>
        /\ \A r \in conn.committed["races"] :
              \A c \in {"race_name", "circuit", "date"} :
                  C24_Coalesced(done.df[1][c], r[c])
        /\ \A r \in conn.committed["race_results"] :
              \A c \in ResultCols : C24_Coalesced(done.df[1][c], r.vals[c])
        /\ \A r \in conn.committed["weather_conditions"] :
              \A c \in WeatherCols : C24_Coalesced(done.df[1][c], r.vals[c])

\* C30: a row that has year and round but whose driver or constructor is not
\* found is skipped and the pass goes on; the race of the row is in the store
\* all the same, every race_results and weather_conditions row the pass adds
\* belongs to a row whose driver and constructor were found, and the driver
\* and the constructor named by a row without year or round are in the store.
C30_LookupFails(row) ==
    ~C23_Skipped(row) /\ (isna(row["driver"]) \/ isna(row["constructor"]))
C30_Added(t) == conn.committed[t] \ done.before[t]
C30_SkippedRowEffects ==
    done.op = "import" =>
        /\ ~C23_Pass.failed
        /\ ~done.failed =>
            /\ done.commitRows = Len(done.df)
            /\ \A i \in 1..Len(done.df) :
                  /\ C30_LookupFails(done.df[i]) =>
                        \E r \in conn.committed["races"] : C23_IsRaceOf(r, done.df[i])
                  /\ \A c \in {"driver", "constructor"} :
                        (C23_Skipped(done.df[i]) /\ notna(done.df[i][c])) =>
                            \E r \in conn.committed[c \o "s"] : r.name = done.df[i][c].s
            /\ \A t \in {"race_results", "weather_conditions"} : \A r \in C30_Added(t) :
                  \E i \in 1..Len(done.df) :
                      /\ ~C23_Skipped(done.df[i]) /\ ~C30_LookupFails(done.df[i])
                      /\ r.race_id = IdOfRace(conn.committed["races"],
                                              done.df[i]["year"].n, done.df[i]["round"].n)

C30_Witness ==
    /\ done.op = "import" /\ ~done.failed
    /\ done.before = EmptyDb
    /\ Len(done.df) = 2
    /\ C23_Skipped(done.df[1]) /\ C30_LookupFails(done.df[2])
    /\ Count(conn.committed, "races") = 1
    /\ Count(conn.committed, "race_results") = 0
    /\ Count(conn.committed, "weather_conditions") = 0
    /\ \E r \in conn.committed["drivers"] : r.name = done.df[1]["driver"].s
    /\ Count(conn.committed, "constructors") = 1

(***************************************************************************)
(* Properties of the schema reset                                          *)
(***************************************************************************)
C25_Drops   == SelectSeq(done.log, LAMBDA st : st.kind = "DROP")
C25_Creates == SelectSeq(done.log, LAMBDA st : st.kind = "CREATE")
C25_StatedDropOrder ==
    <<"weather_conditions", "race_results", "rankings", "races", "drivers",
      "constructors">>

\* C25: a reset executes its drop statements before its create statements, the
\* drops in the order weather_conditions, race_results, rankings, races,
\* drivers, constructors; every table that references a table is dropped
\* before it, no table is removed while a table that references it exists, and
\* a table is created only once the tables it references exist.
C25_ResetOrdering ==
    done.op = "reset" =>
        /\ done.log = C25_Drops \o C25_Creates
        /\ [i \in 1..Len(C25_Drops) |-> C25_Drops[i].table] = C25_StatedDropOrder
        /\ \A i, j \in 1..Len(C25_Drops) :
              C25_Drops[j].table \in ParentsOf(C25_Drops[i].table) => i < j
        /\ \A i \in 1..Len(C25_Drops) :
              (~C25_Drops[i].raised /\ C25_Drops[i].table \in C25_Drops[i].tables) =>
                  ChildrenOf(C25_Drops[i].table) \cap C25_Drops[i].tables = {}
        /\ \A i \in 1..Len(C25_Creates) :
              /\ \A j \in 1..Len(C25_Creates) :
                    C25_Creates[j].table \in ParentsOf(C25_Creates[i].table) => j < i
              /\ ~C25_Creates[i].raised =>
                    ParentsOf(C25_Creates[i].table) \subseteq C25_Creates[i].tables

C25_Witness ==
    /\ done.op = "reset" /\ done.ok
    /\ Len(C25_Drops) = 6 /\ Len(C25_Creates) = 6
    /\ C25_Drops[1].tables = Tables
    /\ \A i \in 1..6 : ~C25_Drops[i].raised
    /\ schema = Tables

\* C26 as stated: no statement that fails ends the reset, and the reset
\* reports success exactly when no create statement failed.
C26_AsStated ==
    done.op = "reset" =>
        /\ Len(C25_Drops) = Len(DropOrder)
        /\ Len(C25_Creates) = Len(CreateOrder)
        /\ done.ok <=> \A i \in 1..Len(C25_Creates) : ~C25_Creates[i].raised

\* C26: a drop statement that fails does not end the reset: all six drops and
\* the first create are executed whatever drops fail.  The first create
\* statement that fails ends the reset, the creates after it are not
\* executed.  The reset reports success exactly when all six create
\* statements were executed and none failed, whatever drops failed.
C26_ResetOutcome ==
    done.op = "reset" =>
        /\ Len(C25_Drops) = Len(DropOrder)
        /\ Len(C25_Creates) >= 1
        /\ \A i \in 1..Len(C25_Creates) :
              C25_Creates[i].raised <=> (i = Len(C25_Creates) /\ ~done.ok)
        /\ done.ok <=> /\ Len(C25_Creates) = Len(CreateOrder)
                       /\ \A i \in 1..Len(C25_Creates) : ~C25_Creates[i].raised

C26_Witness ==
    /\ done.op = "reset" /\ ~done.ok
    /\ C25_Drops[1].raised /\ ~C25_Drops[2].raised
    /\ C25_Drops[2].table \in C25_Drops[2].tables
    /\ Len(C25_Creates) = 3 /\ C25_Creates[3].raised

(***************************************************************************)
(* Properties of the REST API                                              *)
(***************************************************************************)
\* the Bearer token of the request verifies: it is signed with the secret key
\* and has not expired
C27_Verifies(header, now) ==
    /\ header.scheme = "Bearer"
    /\ header.token.wellFormed /\ header.token.key = "SECRET_KEY"
    /\ header.token.exp > now

\* C27: in every variant a protected endpoint answers 401 and runs no query
\* when the Bearer token is missing, malformed, wrongly signed or expired, and
\* runs its query only when the token verifies; POST /token issues a token
\* only for the configured API password and answers 401 otherwise.
C27_Authentication ==
    /\ api.resp.op = "get" =>
          IF C27_Verifies(api.resp.header, api.resp.at)
          THEN api.resp.queried
          ELSE api.resp.status = 401 /\ ~api.resp.queried
    /\ api.resp.op = "token" =>
          IF api.resp.password = "API_PASSWORD"
          THEN api.resp.status = 200 /\ api.resp.token \in api.issued
          ELSE api.resp.status = 401 /\ api.resp.token = NoToken
    /\ \A t \in api.issued : t.key = "SECRET_KEY"

====
